---- MODULE Spec2Model ----
(***************************************************************************)
(* A model of the cai-crawler Convex backend: the crawl orchestrator       *)
(* (convex/runs.ts), the raw snapshot store (entitySnapshots) and the      *)
(* image ingestion pipeline (convex/images.ts).                            *)
(*                                                                         *)
(* SpecRuns   : runs table + Workpool queue + one runCivitaiQuery worker.  *)
(* SpecRunsFair : SpecRuns with a pool that keeps running its units.     *)
(* SpecIngest : entitySnapshots and images tables under                    *)
(*              insertEntitySnapshots / insertImages batches, whose items  *)
(*              are run concurrently by asyncMap inside one mutation.      *)
(* SpecExtract : extractModelReferences (convex/utils/extractors.ts) as    *)
(*              processEntityToImage calls it for a new image.             *)
(* SpecUrl    : buildURL (convex/utils/url.ts) called with the same        *)
(*              search parameters twice.                                   *)
(* SpecStorage : one execution of the storage.enqueue action               *)
(*              (convex/storage.ts).                                       *)
(* SpecTags   : the tag mutations (convex/tags.ts) on the images that      *)
(*              insertImages created.                                      *)
(* SpecCrawl  : the self-scheduling runImageCrawl action (convex/run.ts).  *)
(***************************************************************************)
EXTENDS Integers, Sequences, FiniteSets, Bags, TLC

\* ---------------------------------------------------------------- bounds
MaxRuns == 2        \* runs ever created
MaxPage == 1        \* largest number of items in one API page
MaxQueue == 1       \* startWorker is not called while this many units wait
MaxEntityId == 1    \* entity (image) ids 1..MaxEntityId
MaxScheduled == 1   \* no ingestion mutation starts while this many dispatches wait
MaxResources == 3   \* longest meta.resources array
MaxParams == 3      \* search parameters of a request
MaxBatches == 3     \* batches of one storage.enqueue call
MaxTags == 3        \* rows ever inserted into 'tags'
MaxImages == 2      \* images that tags are put on
MaxCrawlFetched == 3 \* items that one image crawl fetches in all

\* ------------------------------------------------------ program constants
maxAttempts == 10
MAX_CRAWLED_ITEMS == 100000
IMAGE_PAGE_SIZE == 200
MAX_RETRIES == 10
maxParallelism == 1
DEFAULT_PRIORITY == 10

\* JavaScript's undefined (an absent optional field)
Undefined == "<undefined>"

\* JavaScript truthiness of an optional string: `if (args.nextCursor)`
Truthy(c) == c # Undefined /\ c # ""

VARIABLES
  runs,             \* the 'runs' table, in insertion order; _id = index
  queue,            \* Workpool: the bag of waiting units [attempt, lastRun];
                    \* lastRun (0 for a fresh unit) records for the properties
                    \* the run that the unit's failed attempt had claimed
  worker,           \* the runCivitaiQuery execution in flight (at most one)
  entitySnapshots,  \* the 'entitySnapshots' table; _id = index
  images,           \* the 'images' table; _id = index
  imageTags,        \* the 'imageTags' table: <<image _id, tag _id>> rows
  tags,             \* the 'tags' table; _id = index, a deleted row stays as
                    \* a gap
  call,             \* the ingestion mutation in flight, the position of each
                    \* of its asyncMap callbacks, and what it returned
  scheduled,        \* scheduler: the storage.enqueue jobs not yet run, each
                    \* the sequence of its tasks
  extraction,       \* processEntityToImage building the models list of a
                    \* new image: the payload, the extractor loop, the row
  request,          \* buildURL called twice with the same search
                    \* parameters, and the URL built by each call
  dispatch,         \* one execution of the storage.enqueue action: the
                    \* environment, the batches and their requests
  tagCall,          \* the last tag mutation: its arguments and how it ended
  crawl             \* the self-scheduling runImageCrawl: whether an execution
                    \* is scheduled, and the state object it was given

vars == <<runs, queue, worker, entitySnapshots, images, imageTags, tags, call,
         scheduled, extraction, request, dispatch, tagCall, crawl>>
runVars == <<runs, queue, worker>>
ingestVars == <<entitySnapshots, images, imageTags, tags, call, scheduled>>
utilVars == <<extraction, request, dispatch, tagCall, crawl>>

\* ------------------------------------------------------------------ runs

IdleWorker ==
  [pc |-> "idle", attempt |-> 0, lastRun |-> 0, run |-> 0, url |-> Undefined,
   items |-> 0, nextCursor |-> Undefined]

\* A URL is its path and its search parameters, a sequence of <<name, value>>
\* pairs in the order of the query string.
\* URLSearchParams.delete(name): every pair of that name is removed
searchParamsDelete(params, name) ==
  LET Other(pair) == pair[1] # name
  IN SelectSeq(params, Other)

\* URLSearchParams.set(name, value): the first pair of that name takes the
\* value and the other pairs of that name are removed; without such a pair
\* the new pair is appended
searchParamsSet(params, name, value) ==
  LET found == {n \in DOMAIN params : params[n][1] = name}
  IN IF found = {} THEN Append(params, <<name, value>>)
     ELSE LET first == CHOOSE n \in found : \A m \in found : n <= m
          IN SubSeq(params, 1, first - 1) \o <<<<name, value>>>>
               \o searchParamsDelete(SubSeq(params, first + 1, Len(params)), name)

\* an endRunTask that would write a query string holding the cursor alone
SetCursorMutantDropsOthers(url, c) ==
  [url EXCEPT !.searchParams = <<<<"cursor", c>>>>]

\* new URL(url) + searchParams.set / delete of 'cursor'
SetCursor(url, c) ==
  [url EXCEPT !.searchParams = searchParamsSet(@, "cursor", c)]
DeleteCursor(url) ==
  [url EXCEPT !.searchParams = searchParamsDelete(@, "cursor")]

\* pool.enqueueAction: one more unit waits for its first attempt
FreshUnit == [attempt |-> 1, lastRun |-> 0]
Enqueue(q, unit) == q (+) SetToBag({unit})
\* ctx.db.insert('runs', {...}) in createRun; the optional priority argument
\* is <<>> when absent and <<p>> when given (priority ?? DEFAULT_PRIORITY)
NewRun(q, target, priority) ==
  [url |-> q,
   itemsTarget |-> target,
   itemsRead |-> 0,
   status |-> "pending",
   priority |-> IF priority = <<>> THEN DEFAULT_PRIORITY ELSE priority[1],
   error |-> Undefined,
   finishedAt |-> FALSE]

\* createRun: insert a pending run and enqueue one worker unit
CreateRun ==
  LET Priorities == {DEFAULT_PRIORITY, DEFAULT_PRIORITY + 1}
  IN
  \* itemsTarget: reached by the first non-empty page, or only by several pages
  LET Targets == {1, MaxPage + 1}
  IN
  \* the request URLs of addImagesBy...Run: buildURL(baseUrl, ['images'],
  \* searchParams), which has no cursor parameter
  LET Queries == {[path |-> "/api/v1/images",
                   searchParams |-> <<<<"modelId", "1">>, <<"nsfw", "true">>>>]}
  IN
  /\ Len(runs) < MaxRuns
  /\ \E q \in Queries, target \in Targets, p \in {<<>>} \cup {<<x>> : x \in Priorities} :
       runs' = Append(runs, NewRun(q, target, p))
  /\ queue' = Enqueue(queue, FreshUnit)
  /\ UNCHANGED <<worker, ingestVars, utilVars>>

\* startWorker: enqueue one worker unit
StartWorker ==
  /\ BagCardinality(queue) < MaxQueue
  /\ queue' = Enqueue(queue, FreshUnit)
  /\ UNCHANGED <<runs, worker, ingestVars, utilVars>>


Pending(rs) == {i \in DOMAIN rs : rs[i].status = "pending"}

\* a startRunTask that would select among all runs, whatever their status
NextRunMutantAnyStatus(rs) ==
  IF rs = <<>> THEN 0
  ELSE CHOOSE i \in DOMAIN rs :
         \A j \in DOMAIN rs :
           \/ rs[j].priority < rs[i].priority
           \/ rs[j].priority = rs[i].priority /\ i <= j

\* a startRunTask that would sort by priority ascending
NextRunMutantLowestPriority(rs) ==
  IF Pending(rs) = {} THEN 0
  ELSE CHOOSE i \in Pending(rs) :
         \A j \in Pending(rs) :
           \/ rs[j].priority > rs[i].priority
           \/ rs[j].priority = rs[i].priority /\ i <= j

\* startRunTask: collect pending runs, stable sort by priority descending,
\* take the first; 0 when there is none
NextRun(rs) ==
  IF Pending(rs) = {} THEN 0
  ELSE CHOOSE i \in Pending(rs) :
         \A j \in Pending(rs) :
           \/ rs[j].priority < rs[i].priority
           \/ rs[j].priority = rs[i].priority /\ i <= j

\* a startRunTask that would return the run without marking it
ClaimRunMutantStaysPending(r) == [r EXCEPT !.finishedAt = FALSE]

\* the patch of startRunTask
ClaimRun(r) == [r EXCEPT !.status = "in_progress", !.finishedAt = FALSE]

\* The pool starts a waiting unit when fewer than maxParallelism run; the
\* action begins with the startRunTask mutation.  With no pending run the
\* action returns at once and the unit is done.
WorkerStartRunTask ==
  \* the pool takes a waiting unit to run it
  LET Dequeue(q, unit) == q (-) SetToBag({unit})
  IN
  /\ worker.pc = "idle"
  /\ maxParallelism = 1
  /\ \E unit \in BagToSet(queue) :
       LET id == NextRun(runs) IN
       /\ queue' = Dequeue(queue, unit)
       /\ IF id = 0
            THEN /\ worker' = IdleWorker
                 /\ runs' = runs
            ELSE /\ runs' = [runs EXCEPT ![id] = ClaimRun(runs[id])]
                 /\ worker' = [IdleWorker EXCEPT !.pc = "fetch",
                                                !.attempt = unit.attempt,
                                                !.lastRun = unit.lastRun,
                                                !.run = id,
                                                !.url = runs[id].url]
  /\ UNCHANGED <<ingestVars, utilVars>>

\* civitaiQuery(run.url) resolved: a page of items and its metadata
WorkerFetch ==
  LET NextCursors ==
        \* nextCursor: z.string().optional() - any string, the empty one included
        LET Cursors == {"", "c1"}
        IN
                     Cursors \cup {Undefined}
  IN
  /\ worker.pc = "fetch"
  /\ \E n \in 0..MaxPage, c \in NextCursors :
       worker' = [worker EXCEPT !.pc = "snapshots", !.items = n, !.nextCursor = c]
  /\ UNCHANGED <<runs, queue, ingestVars, utilVars>>

\* runMutation(insertEntitySnapshots) returned
WorkerInsertEntitySnapshots ==
  /\ worker.pc = "snapshots"
  /\ worker' = [worker EXCEPT !.pc = "images"]
  /\ UNCHANGED <<runs, queue, ingestVars, utilVars>>

\* runMutation(insertImages) returned
WorkerInsertImages ==
  /\ worker.pc = "images"
  /\ worker' = [worker EXCEPT !.pc = "end"]
  /\ UNCHANGED <<runs, queue, ingestVars, utilVars>>

\* civitaiQuery rejects (timeout, non-2xx, schema mismatch) or a mutation
\* rejects.  runCivitaiQuery has no try/catch: the action fails, and the
\* pool re-enqueues the unit while attempts remain.
WorkerThrow ==
  /\ worker.pc \in {"fetch", "snapshots", "images"}
  /\ worker' = IdleWorker
  /\ queue' = IF worker.attempt < maxAttempts
                THEN Enqueue(queue, [attempt |-> worker.attempt + 1,
                                     lastRun |-> worker.run])
                ELSE queue
  /\ UNCHANGED <<runs, ingestVars, utilVars>>

\* an endRunTask that would complete only above the target (> for >=)
EndRunTaskMutantStrict(run, runItemsRead, nextCursor) ==
  LET totalItemsRead == run.itemsRead + runItemsRead
      nextUrl == IF Truthy(nextCursor) THEN SetCursor(run.url, nextCursor)
                 ELSE DeleteCursor(run.url)
      isComplete == \/ totalItemsRead > run.itemsTarget
                    \/ runItemsRead = 0
                    \/ ~Truthy(nextCursor)
  IN [run EXCEPT !.status = IF isComplete THEN "completed" ELSE "pending",
                 !.itemsRead = totalItemsRead,
                 !.url = nextUrl,
                 !.finishedAt = isComplete,
                 !.error = Undefined]

\* an endRunTask that would leave the URL as it was
EndRunTaskMutantKeepsUrl(run, runItemsRead, nextCursor) ==
  LET totalItemsRead == run.itemsRead + runItemsRead
      isComplete == \/ totalItemsRead >= run.itemsTarget
                    \/ runItemsRead = 0
                    \/ ~Truthy(nextCursor)
  IN [run EXCEPT !.status = IF isComplete THEN "completed" ELSE "pending",
                 !.itemsRead = totalItemsRead,
                 !.finishedAt = isComplete,
                 !.error = Undefined]

\* endRunTask's computation of the patched run
EndRunTask(run, runItemsRead, nextCursor) ==
  LET totalItemsRead == run.itemsRead + runItemsRead
      nextUrl == IF Truthy(nextCursor) THEN SetCursor(run.url, nextCursor)
                 ELSE DeleteCursor(run.url)
      isComplete == \/ totalItemsRead >= run.itemsTarget
                    \/ runItemsRead = 0
                    \/ ~Truthy(nextCursor)
  IN [run EXCEPT !.status = IF isComplete THEN "completed" ELSE "pending",
                 !.itemsRead = totalItemsRead,
                 !.url = nextUrl,
                 !.finishedAt = isComplete,
                 !.error = Undefined]

\* failRunTask's patch (no caller in the repository)
FailRunTask(run, error) ==
  [run EXCEPT !.status = "failed", !.error = error, !.finishedAt = TRUE]

\* runMutation(endRunTask, {runId, runItemsRead: items.length, nextCursor})
WorkerEndRunTask ==
  /\ worker.pc = "end"
  /\ runs' = [runs EXCEPT ![worker.run] =
                EndRunTask(runs[worker.run], worker.items, worker.nextCursor)]
  /\ worker' = [worker EXCEPT !.pc = "enqueue"]
  /\ UNCHANGED <<queue, ingestVars, utilVars>>

\* an action that would enqueue two successors
WorkerEnqueueMutantTwice ==
  /\ worker.pc = "enqueue"
  /\ queue' = Enqueue(Enqueue(queue, FreshUnit), FreshUnit)
  /\ worker' = IdleWorker
  /\ UNCHANGED <<runs, ingestVars, utilVars>>

\* pool.enqueueAction(runCivitaiQuery) and the action returns
WorkerEnqueue ==
  /\ worker.pc = "enqueue"
  /\ queue' = Enqueue(queue, FreshUnit)
  /\ worker' = IdleWorker
  /\ UNCHANGED <<runs, ingestVars, utilVars>>

WorkerStep ==
  \/ WorkerStartRunTask
  \/ WorkerFetch
  \/ WorkerInsertEntitySnapshots
  \/ WorkerInsertImages
  \/ WorkerEndRunTask
  \/ WorkerEnqueue

\* --------------------------------------------------------------- ingestion
\* One mutation runs at a time (Convex mutations are serializable).  Inside
\* a mutation asyncMap starts every callback in input order - each runs up
\* to its first await, issuing its first database read - and only then do
\* the callbacks resume, one database operation at a time, in the order
\* their operations resolve.  A database operation takes effect when issued.

EntityTypes == {"image"}
\* the ids the API returns; the payload of an id in MalformedIds may fail
\* the Image schema
EntityIds == 1..MaxEntityId
INTERNAL_TAGS_untagged == "_untagged"

\* ------------------------------------------------------------------ tags

\* String.prototype.toLowerCase, on the strings that occur
toLowerCase(s) ==
  CASE s = "A" -> "a"
    [] s = "LORA" -> "lora"
    [] OTHER -> s

\* String.prototype.trim, on the names that occur
trim(name) ==
  CASE name = " A " -> "A"
    [] name = " " -> ""
    [] OTHER -> name

\* getTagByName: .withIndex('by_name', q => q.eq('name', name.toLowerCase()))
\* .first(); 0 when there is no such row
getTagByName(table, name) ==
  LET found == {i \in DOMAIN table :
                  ~table[i].deleted /\ table[i].name = toLowerCase(name)}
  IN IF found = {} THEN 0 ELSE CHOOSE i \in found : \A j \in found : i <= j

\* what a tag mutation gives: the error it threw (Undefined when it
\* returned), the id it returned, and the table it leaves
TagResult(error, tagId, table) ==
  [error |-> error, tagId |-> tagId, tags |-> table]

\* a createTag that would insert without looking for the name
createTagMutantNoLookup(table, name, isInternal) ==
  TagResult(Undefined, Len(table) + 1,
            Append(table, [name |-> toLowerCase(trim(name)),
                           isInternal |-> isInternal, deleted |-> FALSE]))

\* createTag
createTag(table, name, isInternal) ==
  LET normalizedName == toLowerCase(trim(name))
  IN IF normalizedName = ""
       THEN TagResult("Tag name cannot be empty", 0, table)
     ELSE IF Len(normalizedName) > 50
       THEN TagResult("Tag name must be 50 characters or less", 0, table)
     ELSE IF getTagByName(table, normalizedName) # 0
       THEN TagResult("Tag with this name already exists", 0, table)
     ELSE TagResult(Undefined, Len(table) + 1,
                    Append(table, [name |-> normalizedName,
                                   isInternal |-> isInternal,
                                   deleted |-> FALSE]))

\* ensureTag: the tag of that name, created when there is none
ensureTag(table, name, isInternal) ==
  LET normalizedName == toLowerCase(trim(name))
      existing == getTagByName(table, normalizedName)
  IN IF existing # 0 THEN TagResult(Undefined, existing, table)
     ELSE createTag(table, normalizedName, isInternal)

\* getImageTagCount: the relationships of the image whose tag exists and is
\* not internal
getImageTagCount(relationships, table, imageId) ==
  Cardinality({r \in relationships :
                 /\ r[1] = imageId
                 /\ ~table[r[2]].deleted
                 /\ ~table[r[2]].isInternal})

\* the items runCivitaiQuery passes: rawData is the item of this entityId;
\* the first query returns parsable items, the second query returns the
\* ids in MalformedIds with a payload that fails the schema
SnapshotArgs ==
  \* rawData: the JSON text of an item with this id; valid says whether
  \* Image.safeParse(JSON.parse(rawData)) succeeds
  LET RawData == [id : EntityIds, valid : BOOLEAN]
  IN
  LET QueryKeys == {"/images?modelId=1", "/images?username=a"}
  IN
  LET MalformedIds == {1}
  IN
  {a \in [entityType : EntityTypes, entityId : EntityIds,
          queryKey : QueryKeys, rawData : RawData] :
     /\ a.rawData.id = a.entityId
     /\ a.rawData.valid <=> a.queryKey = "/images?modelId=1"
     /\ a.rawData.valid \/ a.entityId \in MalformedIds}

Batches(S) ==
  \* the number of items of one batch
  LET BatchSizes == {1, 2}
  IN
              UNION {[1..n -> S] : n \in BatchSizes}

IdleCall ==
  \* before: the tables as the mutation found them when it started
  LET NoTables == [entitySnapshots |-> <<>>, images |-> <<>>]
  IN
  [kind |-> "idle", state |-> "idle", items |-> <<>>, pc |-> <<>>,
   local |-> <<>>, results |-> <<>>, before |-> NoTables]

NoResult == [entitySnapshotId |-> 0, inserted |-> FALSE, id |-> 0, error |-> Undefined]

\* asyncMap: callback i may take its first step once the callbacks before it
\* have taken theirs, and may resume once every callback has started
MayStart(i, first) == \A j \in 1..(i - 1) : call.pc[j] # first
MayResume(first) == \A j \in DOMAIN call.pc : call.pc[j] # first

\* a by_entity lookup that would never find a row
FirstByEntityMutantNeverFinds(table, entityType, entityId) == 0

\* query('entitySnapshots').withIndex('by_entity', ...).first(): the _id of
\* the oldest row of the key, 0 when there is none
FirstByEntity(table, entityType, entityId) ==
  LET hits == {k \in DOMAIN table : /\ table[k].entityType = entityType
                                    /\ table[k].entityId = entityId}
  IN IF hits = {} THEN 0 ELSE CHOOSE k \in hits : \A m \in hits : k <= m

\* insertEntitySnapshots is called with a batch of items
CallInsertEntitySnapshots ==
  /\ call.state = "idle"
  /\ Len(scheduled) < MaxScheduled
  /\ \E items \in Batches(SnapshotArgs) :
       call' = [IdleCall EXCEPT !.kind = "insertEntitySnapshots",
                                !.state = "running",
                                !.before = [entitySnapshots |-> entitySnapshots,
                                            images |-> images],
                                !.items = items,
                                !.pc = [i \in DOMAIN items |-> "lookup"],
                                !.local = [i \in DOMAIN items |-> <<>>],
                                !.results = [i \in DOMAIN items |-> NoResult]]
  /\ UNCHANGED <<runVars, utilVars, entitySnapshots, images, imageTags, tags, scheduled>>

\* a lookup that would overwrite the stored payload and query key of an
\* existing row with those of the argument (an upsert)
SnapshotLookupMutantUpsert(i) ==
  /\ call.kind = "insertEntitySnapshots" /\ call.state = "running"
  /\ call.pc[i] = "lookup"
  /\ MayStart(i, "lookup")
  /\ LET arg == call.items[i]
         existing == FirstByEntity(entitySnapshots, arg.entityType, arg.entityId)
     IN /\ call' = IF existing # 0
                     THEN [call EXCEPT !.pc[i] = "done",
                                       !.results[i] = [NoResult EXCEPT !.id = existing]]
                     ELSE [call EXCEPT !.pc[i] = "insert"]
        /\ entitySnapshots' =
             IF existing # 0
               THEN [entitySnapshots EXCEPT ![existing].rawData = arg.rawData,
                                            ![existing].queryKey = arg.queryKey]
               ELSE entitySnapshots
  /\ UNCHANGED <<runVars, utilVars, images, imageTags, tags, scheduled>>

\* callback i: the by_entity lookup; an existing row is returned at once
SnapshotLookup(i) ==
  /\ call.kind = "insertEntitySnapshots" /\ call.state = "running"
  /\ call.pc[i] = "lookup"
  /\ MayStart(i, "lookup")
  /\ LET arg == call.items[i]
         existing == FirstByEntity(entitySnapshots, arg.entityType, arg.entityId)
     IN call' = IF existing # 0
                  THEN [call EXCEPT !.pc[i] = "done",
                                    !.results[i] = [NoResult EXCEPT !.id = existing]]
                  ELSE [call EXCEPT !.pc[i] = "insert"]
  /\ UNCHANGED <<runVars, utilVars, entitySnapshots, images, imageTags, tags, scheduled>>

\* callback i: ctx.db.insert('entitySnapshots', arg)
SnapshotInsert(i) ==
  /\ call.kind = "insertEntitySnapshots" /\ call.state = "running"
  /\ call.pc[i] = "insert"
  /\ MayResume("lookup")
  /\ entitySnapshots' = Append(entitySnapshots,
                               [entityType |-> call.items[i].entityType,
                                entityId |-> call.items[i].entityId,
                                queryKey |-> call.items[i].queryKey,
                                rawData |-> call.items[i].rawData,
                                processedDocumentId |-> 0])
  /\ call' = [call EXCEPT !.pc[i] = "done",
                          !.results[i] = [NoResult EXCEPT
                                            !.inserted = TRUE,
                                            !.id = Len(entitySnapshots) + 1]]
  /\ UNCHANGED <<runVars, utilVars, images, imageTags, tags, scheduled>>

\* Promise.all resolved: insertEntitySnapshots returns its results
ReturnInsertEntitySnapshots ==
  /\ call.kind = "insertEntitySnapshots" /\ call.state = "running"
  /\ \A i \in DOMAIN call.pc : call.pc[i] = "done"
  /\ call' = IdleCall
  /\ UNCHANGED <<runVars, utilVars, entitySnapshots, images, imageTags, tags, scheduled>>

\* a lookup by imageId that finds nothing
FirstByImageIdMutantNeverFinds(table, imageId) == 0

\* getImageByImageId: .withIndex('by_imageId').first()
FirstByImageId(table, imageId) ==
  LET hits == {k \in DOMAIN table : table[k].imageId = imageId}
  IN IF hits = {} THEN 0 ELSE CHOOSE k \in hits : \A m \in hits : k <= m

\* .withIndex('by_imageId').unique(): the row, 0 when there is none; it
\* throws (result -1) when more than one row has the imageId
UniqueByImageId(table, imageId) ==
  LET hits == {k \in DOMAIN table : table[k].imageId = imageId}
  IN IF hits = {} THEN 0
     ELSE IF Cardinality(hits) > 1 THEN 0 - 1
     ELSE CHOOSE k \in hits : TRUE

\* a back-link that would patch nothing
BacklinkMutantNoPatch(table, entitySnapshotId, processedDocumentId) == table

\* a back-link that would name the row after the image
BacklinkMutantNextDocument(table, entitySnapshotId, processedDocumentId) ==
  [table EXCEPT ![entitySnapshotId].processedDocumentId = processedDocumentId + 1]

\* backlinkProcessedDocument: ctx.db.patch(entitySnapshotId, {processedDocumentId})
BacklinkProcessedDocument(table, entitySnapshotId, processedDocumentId) ==
  [table EXCEPT ![entitySnapshotId].processedDocumentId = processedDocumentId]

\* a catch that would swallow the error without reporting the item
CaughtMutantNoReport(i, error) == [call EXCEPT !.pc[i] = "done"]

\* catch (error): {entitySnapshotId, inserted: false, error}
Caught(i, error) ==
  [call EXCEPT !.pc[i] = "done",
               !.results[i] = [NoResult EXCEPT !.entitySnapshotId = call.items[i],
                                               !.error = error]]
\* processEntityToImage returns {entitySnapshotId, inserted, image}
Returned(i, inserted, image) ==
  [call EXCEPT !.pc[i] = "done",
               !.results[i] = [NoResult EXCEPT !.entitySnapshotId = call.items[i],
                                               !.inserted = inserted,
                                               !.id = image]]

\* insertImages is called with a batch of snapshot ids (an id may name no row)
CallInsertImages ==
  /\ call.state = "idle"
  /\ Len(scheduled) < MaxScheduled
  /\ \E items \in Batches(1..(Len(entitySnapshots) + 1)) :
       call' = [IdleCall EXCEPT !.kind = "insertImages",
                                !.state = "running",
                                !.before = [entitySnapshots |-> entitySnapshots,
                                            images |-> images],
                                !.items = items,
                                !.pc = [i \in DOMAIN items |-> "get"],
                                !.local = [i \in DOMAIN items |-> <<>>],
                                !.results = [i \in DOMAIN items |-> NoResult]]
  /\ tags' = ensureTag(tags, INTERNAL_TAGS_untagged, TRUE).tags
  /\ UNCHANGED <<runVars, utilVars, entitySnapshots, images, imageTags, scheduled>>

\* processEntityToImage, callback i: getEntitySnapshot; local[i] keeps the
\* row as read, <<row>>, or <<>> for null
ImageGetSnapshot(i) ==
  /\ call.kind = "insertImages" /\ call.state = "running"
  /\ call.pc[i] = "get"
  /\ MayStart(i, "get")
  /\ LET id == call.items[i]
     IN call' = [call EXCEPT !.pc[i] = "lookup",
                             !.local[i] = IF id \in DOMAIN entitySnapshots
                                            THEN <<entitySnapshots[id]>> ELSE <<>>]
  /\ UNCHANGED <<runVars, utilVars, entitySnapshots, images, imageTags, tags, scheduled>>

\* callback i: a missing snapshot or a failed parse throws; otherwise the
\* lookup by imageId.  local[i] becomes <<row, image>>.
ImageLookup(i) ==
  \* Image.safeParse(JSON.parse(rawData)).success
  LET safeParse(rawData) == rawData.valid
  IN
  /\ call.kind = "insertImages" /\ call.state = "running"
  /\ call.pc[i] = "lookup"
  /\ MayResume("get")
  /\ IF call.local[i] = <<>>
       THEN call' = Caught(i, "Invalid entitySnapshotId")
     ELSE IF ~safeParse(call.local[i][1].rawData)
       THEN call' = Caught(i, "Failed to parse entity as image")
     ELSE LET entitySnapshot == call.local[i][1]
              existingImage == FirstByImageId(images, entitySnapshot.rawData.id)
          IN IF existingImage = 0
               THEN call' = [call EXCEPT !.pc[i] = "insert"]
             ELSE IF entitySnapshot.processedDocumentId # existingImage
               THEN call' = [call EXCEPT !.pc[i] = "relink",
                                         !.local[i] = <<entitySnapshot, existingImage>>]
             ELSE call' = Returned(i, FALSE, existingImage)
  /\ UNCHANGED <<runVars, utilVars, entitySnapshots, images, imageTags, tags, scheduled>>

\* callback i: the image exists and the snapshot as read is not linked to
\* it: back-link, return the existing image
ImageRelink(i) ==
  /\ call.kind = "insertImages" /\ call.state = "running"
  /\ call.pc[i] = "relink"
  /\ entitySnapshots' =
       BacklinkProcessedDocument(entitySnapshots, call.items[i], call.local[i][2])
  /\ call' = Returned(i, FALSE, call.local[i][2])
  /\ UNCHANGED <<runVars, utilVars, images, imageTags, tags, scheduled>>

\* the url of the payload of the image with this id
ImageUrl(imageId) == <<"https://image.civitai.com", imageId>>
\* `${contentType}/${id}`
generateStorageKey(contentType, id) == <<contentType, id>>

\* callback i: ctx.db.insert('images', {imageId, entitySnapshotId, ...})
ImageInsert(i) ==
  /\ call.kind = "insertImages" /\ call.state = "running"
  /\ call.pc[i] = "insert"
  /\ LET imageId == call.local[i][1].rawData.id
     IN images' = Append(images, [imageId |-> imageId,
                                  entitySnapshotId |-> call.items[i],
                                  url |-> ImageUrl(imageId),
                                  storageKey |-> generateStorageKey("images", imageId)])
  /\ call' = [call EXCEPT !.pc[i] = "refetch"]
  /\ UNCHANGED <<runVars, utilVars, entitySnapshots, imageTags, tags, scheduled>>

\* callback i: the re-fetch by imageId with unique()
ImageRefetch(i) ==
  /\ call.kind = "insertImages" /\ call.state = "running"
  /\ call.pc[i] = "refetch"
  /\ LET image == UniqueByImageId(images, call.local[i][1].rawData.id) IN
     IF image < 0
       THEN call' = Caught(i, "unique() query returned more than one result")
       ELSE call' = [call EXCEPT !.pc[i] = "backlink",
                                 !.local[i] = <<call.local[i][1], image>>]
  /\ UNCHANGED <<runVars, utilVars, entitySnapshots, images, imageTags, tags, scheduled>>

\* callback i: back-link the snapshot to the re-fetched image, return it
ImageBacklink(i) ==
  /\ call.kind = "insertImages" /\ call.state = "running"
  /\ call.pc[i] = "backlink"
  /\ entitySnapshots' =
       BacklinkProcessedDocument(entitySnapshots, call.items[i], call.local[i][2])
  /\ call' = Returned(i, TRUE, call.local[i][2])
  /\ UNCHANGED <<runVars, utilVars, images, imageTags, tags, scheduled>>

\* the results that carry an image ('image' in e)
ImageEntityPairs(results) == {i \in DOMAIN results : results[i].id # 0}

RECURSIVE DispatchTasks(_, _)
\* imageEntityPairs.map(e => ({sourceUrl: e.image.url, storageKey:
\* e.image.storageKey})): the tasks of results i.. in result order
DispatchTasks(results, i) ==
  IF i > Len(results) THEN <<>>
  ELSE (IF i \in ImageEntityPairs(results)
          THEN <<[sourceUrl |-> images[results[i].id].url,
                  storageKey |-> images[results[i].id].storageKey]>>
          ELSE <<>>)
       \o DispatchTasks(results, i + 1)

\* asyncMap resolved: the untagged tag for the newly inserted images, one
\* scheduler.runAfter(0, storage.enqueue, {tasks}), and insertImages returns
\* processedResults
ReturnInsertImages ==
  /\ call.kind = "insertImages" /\ call.state = "running"
  /\ \A i \in DOMAIN call.pc : call.pc[i] = "done"
  /\ imageTags' = imageTags \cup
       {<<call.results[i].id, getTagByName(tags, INTERNAL_TAGS_untagged)>> :
          i \in {k \in ImageEntityPairs(call.results) : call.results[k].inserted}}
  /\ scheduled' = Append(scheduled, DispatchTasks(call.results, 1))
  /\ call' = IdleCall
  /\ UNCHANGED <<runVars, utilVars, entitySnapshots, images, tags>>

\* the scheduler runs the oldest storage.enqueue job, which forwards its
\* tasks to the asset worker
StorageEnqueue ==
  /\ scheduled # <<>>
  /\ scheduled' = Tail(scheduled)
  /\ UNCHANGED <<runVars, utilVars, entitySnapshots, images, imageTags, tags, call>>

NextIngest ==
  \/ CallInsertEntitySnapshots
  \/ \E i \in DOMAIN call.pc : SnapshotLookup(i)
  \/ \E i \in DOMAIN call.pc : SnapshotInsert(i)
  \/ ReturnInsertEntitySnapshots
  \/ CallInsertImages
  \/ \E i \in DOMAIN call.pc : ImageGetSnapshot(i)
  \/ \E i \in DOMAIN call.pc : ImageLookup(i)
  \/ \E i \in DOMAIN call.pc : ImageRelink(i)
  \/ \E i \in DOMAIN call.pc : ImageInsert(i)
  \/ \E i \in DOMAIN call.pc : ImageRefetch(i)
  \/ \E i \in DOMAIN call.pc : ImageBacklink(i)
  \/ ReturnInsertImages
  \/ StorageEnqueue


\* ------------------------------------------------- reference extraction
\* convex/utils/extractors.ts, as called by processEntityToImage.
\*
\* JavaScript values: an absent (undefined) string field is Undefined, and
\* "" is the empty string, which is present but falsy.  An absent numeric
\* field is 0: the ids of the API are positive, and the code looks at them
\* only through their truthiness (`if (ref.id)`, `a.id || b.id`).  weight is
\* read with `??`, which tells undefined from 0, so an absent weight is <<>>
\* and a weight w is <<w>>.  An absent or empty array is <<>> (both
\* contribute nothing), an absent object is <<>> and a present one is
\* <<object>>.

Names == {Undefined, "", "a", "A"}
\* a value that is present (truthy) but not a string, such as the number 123
NotAString == "<number>"
Hashes == {Undefined, "h"}
\* an entry of meta.resources
Resources ==
  LET ModelIds == {0, 1}
  IN
  LET VersionIds == {0, 1}
  IN
  [type : {"checkpoint", "lora", "LORA", "model", "embedding", NotAString},
   name : Names \cup {NotAString},
   modelId : ModelIds, modelVersionId : VersionIds, weight : {<<>>},
   hash : Hashes]
\* a null element of an array
NullEntry ==
  [type |-> "<null>", name |-> Undefined, modelId |-> 0, modelVersionId |-> 0,
   weight |-> <<>>, hash |-> Undefined]
\* an entry of meta.civitaiResources
CivitaiResources ==
  LET Weights == {<<>>, <<1>>}
  IN
  [type : {"checkpoint", "upscaler"}, modelVersionId : {1},
   modelVersionName : {"a"}, weight : Weights]
\* meta.hashes: its model key and its "lora:<name>" keys, in key order
EmptyHashes == [model |-> Undefined, lora |-> <<>>]
\* a prompt that is not a string
NumberPrompt == <<[token |-> FALSE, name |-> NotAString, weight |-> <<>>]>>

\* {} - an object with none of the fields the extractors look at
EmptyObject ==
  [civitaiResources |-> <<>>, resources |-> <<>>, Model |-> Undefined,
   ModelHash |-> Undefined, hashes |-> EmptyHashes, prompt |-> <<>>,
   meta |-> <<>>]

\* `imageData.meta?.x`: the fields of imageData.meta, all absent when
\* imageData has no meta
MetaOf(imageData) ==
  IF imageData.meta = <<>> THEN EmptyObject ELSE imageData.meta[1]

ModelReference(type, name, id, versionId, weight, hash) ==
  [type |-> type, name |-> name, id |-> id, versionId |-> versionId,
   weight |-> weight, hash |-> hash]

IsCivitaiResource(resource) ==
  toLowerCase(resource.type) \in {"checkpoint", "lora"}

extractFromCivitaiResources(imageData) ==
  LET found == SelectSeq(MetaOf(imageData).civitaiResources, IsCivitaiResource)
  IN [n \in 1..Len(found) |->
        ModelReference(toLowerCase(found[n].type), found[n].modelVersionName,
                       0, found[n].modelVersionId, found[n].weight,
                       Undefined)]

IsModelResource(resource) ==
  toLowerCase(resource.type) \in {"checkpoint", "lora", "model"}

extractFromResources(imageData) ==
  LET found == SelectSeq(MetaOf(imageData).resources, IsModelResource)
  IN [n \in 1..Len(found) |->
        ModelReference(IF toLowerCase(found[n].type) = "model"
                         THEN "checkpoint" ELSE toLowerCase(found[n].type),
                       found[n].name, found[n].modelId,
                       found[n].modelVersionId, found[n].weight,
                       found[n].hash)]

extractFromModelField(imageData) ==
  IF Truthy(MetaOf(imageData).Model)
    THEN <<ModelReference("checkpoint", MetaOf(imageData).Model, 0, 0, <<>>,
                          IF Truthy(MetaOf(imageData).ModelHash)
                            THEN MetaOf(imageData).ModelHash ELSE Undefined)>>
    ELSE <<>>

extractFromHashes(imageData) ==
  LET hashes == MetaOf(imageData).hashes
  IN (IF Truthy(hashes.model)
        THEN <<ModelReference("checkpoint", Undefined, 0, 0, <<>>,
                              hashes.model)>>
        ELSE <<>>)
     \o [n \in 1..Len(hashes.lora) |->
           ModelReference("lora", hashes.lora[n].name, 0, 0, <<>>,
                          hashes.lora[n].hash)]

\* /<lora:([^:]+):([^>]+)>/g - the tokens with a non-empty name and weight
IsLoraMatch(piece) == piece.token /\ piece.name # "" /\ piece.weight # <<>>

extractFromPrompt(imageData) ==
  LET loraMatches == SelectSeq(MetaOf(imageData).prompt, IsLoraMatch)
  IN [n \in 1..Len(loraMatches) |->
        ModelReference("lora", loraMatches[n].name, 0, 0,
                       loraMatches[n].weight, Undefined)]

ExtractorIds == 1..5

ExtractorThrows(n, imageData) ==
  \* The TypeErrors of the extractors: `resource.type` of a null element,
  \* `.toLowerCase()` of a type that is not a string, `.match()` of a prompt
  \* that is not a string.
  LET ResourceThrows(resource) == resource = NullEntry \/ resource.type = NotAString
  IN
  CASE n = 1 -> \E m \in DOMAIN MetaOf(imageData).civitaiResources :
                  MetaOf(imageData).civitaiResources[m].type = NotAString
    [] n = 2 -> \E m \in DOMAIN MetaOf(imageData).resources :
                  ResourceThrows(MetaOf(imageData).resources[m])
    [] n = 5 -> MetaOf(imageData).prompt = NumberPrompt
    [] OTHER -> FALSE

Extractor(n, imageData) ==
  CASE n = 1 -> extractFromCivitaiResources(imageData)
    [] n = 2 -> extractFromResources(imageData)
    [] n = 3 -> extractFromModelField(imageData)
    [] n = 4 -> extractFromHashes(imageData)
    [] OTHER -> extractFromPrompt(imageData)

\* The string keys of referenceMap: `versionId:${n}`, `id:${n}`, `hash:${h}`,
\* `${type}:name:${name}` and `unknown:${Math.random()}`.
MapKey(kind, type, num, str) ==
  [kind |-> kind, type |-> type, num |-> num, str |-> str]

\* the keys of a reference, most specific first
KeysOf(ref) ==
  (IF ref.versionId # 0
     THEN <<MapKey("versionId", "", ref.versionId, "")>> ELSE <<>>)
  \o (IF ref.id # 0 THEN <<MapKey("id", "", ref.id, "")>> ELSE <<>>)
  \o (IF Truthy(ref.hash) THEN <<MapKey("hash", "", 0, ref.hash)>> ELSE <<>>)
  \o (IF Truthy(ref.name)
        THEN <<MapKey("name", ref.type, 0, toLowerCase(ref.name))>>
        ELSE <<>>)

\* a || b for numbers (absent 0), a ?? b for the weight (absent <<>>)
Or(a, b, absent) == IF a # absent THEN a ELSE b
\* a || b for strings
OrElse(a, b) == IF Truthy(a) THEN a ELSE b

\* a merge that prefers the later reference
mergeReferencesMutantLaterWins(a, b) ==
  [type |-> OrElse(b.type, a.type),
   id |-> Or(b.id, a.id, 0),
   versionId |-> Or(b.versionId, a.versionId, 0),
   hash |-> OrElse(b.hash, a.hash),
   name |-> OrElse(b.name, a.name),
   weight |-> Or(b.weight, a.weight, <<>>)]

mergeReferences(a, b) ==
  [type |-> OrElse(a.type, b.type),
   id |-> Or(a.id, b.id, 0),
   versionId |-> Or(a.versionId, b.versionId, 0),
   hash |-> OrElse(a.hash, b.hash),
   name |-> OrElse(a.name, b.name),
   weight |-> Or(a.weight, b.weight, <<>>)]

\* `ref.name.toLowerCase()` of a name that is not a string
ConsolidateThrows(references) ==
  \E n \in DOMAIN references : references[n].name = NotAString

\* referenceMap: a Map in insertion order, as the sequence of its entries
MapIndex(referenceMap, key) ==
  LET at == {n \in DOMAIN referenceMap : referenceMap[n].key = key}
  IN IF at = {} THEN 0 ELSE CHOOSE n \in at : TRUE

MapSet(referenceMap, key, ref) ==
  IF MapIndex(referenceMap, key) = 0
    THEN Append(referenceMap, [key |-> key, ref |-> ref])
    ELSE [referenceMap EXCEPT ![MapIndex(referenceMap, key)].ref = ref]

\* one turn of the loop of consolidateReferences, for references[n]; the
\* random key of a reference without keys is a fresh one
ConsolidateOne(referenceMap, ref, n) ==
  \* the first of the keys that the map has, 0 when it has none of them
  LET FirstKeyIn(map, ks) ==
        LET has == {k \in DOMAIN ks : MapIndex(map, ks[k]) # 0}
        IN IF has = {} THEN 0 ELSE CHOOSE k \in has : \A m \in has : k <= m
  IN
  LET keys == KeysOf(ref)
      key == FirstKeyIn(referenceMap, keys)
  IN IF Len(keys) = 0
       THEN Append(referenceMap,
                   [key |-> MapKey("unknown", "", n, ""), ref |-> ref])
       ELSE IF key # 0
         THEN MapSet(referenceMap, keys[key],
                     mergeReferences(
                       referenceMap[MapIndex(referenceMap, keys[key])].ref,
                       ref))
         ELSE MapSet(referenceMap, keys[1], ref)

RECURSIVE ConsolidateFrom(_, _, _)
ConsolidateFrom(references, n, referenceMap) ==
  IF n > Len(references)
    THEN referenceMap
    ELSE ConsolidateFrom(references, n + 1,
                         ConsolidateOne(referenceMap, references[n], n))

consolidateReferences(references) ==
  LET referenceMap == ConsolidateFrom(references, 1, <<>>)
  IN [n \in 1..Len(referenceMap) |-> referenceMap[n].ref]

\* The image payloads of the extraction model.  The metadata is either
\* null, or an object holding the model-usage fields itself (the shape of
\* the API's documented example), or an object whose own `meta` field holds
\* them.
\* a resources array of any one entry, next to the other fields
ResourceLists ==
  {<<>>} \cup {<<r>> : r \in Resources}
         \cup {<<NullEntry>>, <<[NullEntry EXCEPT !.type = "lora", !.name = "a"],
                               NullEntry>>}
HashesChoices ==
  {EmptyHashes, [model |-> "h", lora |-> <<>>],
   [model |-> Undefined, lora |-> <<[name |-> "a", hash |-> "h"]>>]}
PromptChoices ==
  LET PromptToken(name, weight) == [token |-> TRUE, name |-> name, weight |-> weight]
  IN
  \* meta.prompt: the pieces of the text, each a <lora:name:weight> token or
  \* other text
  LET PromptText == [token |-> FALSE, name |-> "", weight |-> <<>>]
  IN
  {<<>>, <<PromptText>>, NumberPrompt, <<PromptToken("a", <<1>>)>>,
   <<PromptToken("a", <<1>>), PromptText, PromptToken("A", <<1>>)>>}
UsageObjects ==
  LET ReferenceLists ==
        \* longer resources arrays, of lora entries
        LET LoraResources ==
              {r \in Resources : r.type = "lora" /\ r.modelId = 0 /\ r.name \in Names}
        IN
        UNION {[1..n -> LoraResources] : n \in 0..MaxResources}
  IN
  {[EmptyObject EXCEPT !.resources = rs] : rs \in ReferenceLists}
  \cup {[EmptyObject EXCEPT !.resources = rs, !.hashes = hs, !.prompt = pt]
          : rs \in ResourceLists,
            hs \in HashesChoices, pt \in PromptChoices}
  \cup {[EmptyObject EXCEPT !.civitaiResources = <<cr>>, !.Model = md,
                            !.ModelHash = mh]
          : cr \in CivitaiResources, md \in {Undefined, "a"}, mh \in Hashes}
NoExtraction ==
  [pc |-> "idle", payload |-> [id |-> 0, meta |-> <<>>],
   imageData |-> EmptyObject, extractor |-> 0, allReferences |-> <<>>,
   models |-> <<>>, image |-> <<>>]

\* processEntityToImage, line 89-90: a parsed payload of an image that is
\* not stored yet; extractModelReferences is called with `meta ?? {}`
CallExtractModelReferences ==
  /\ extraction.pc = "parsed"
  /\ extraction' =
       [extraction EXCEPT
          !.pc = "extracting",
          !.imageData = IF extraction.payload.meta = <<>>
                          THEN EmptyObject ELSE extraction.payload.meta[1],
          !.extractor = 1]
  /\ UNCHANGED <<runVars, ingestVars, request, dispatch, tagCall, crawl>>

\* one turn of the loop over the extractors; what an extractor throws is
\* caught and its references are dropped
RunExtractor ==
  /\ extraction.pc = "extracting"
  /\ extraction.extractor \in ExtractorIds
  /\ extraction' =
       [extraction EXCEPT
          !.allReferences =
             IF ExtractorThrows(extraction.extractor, extraction.imageData)
               THEN @
               ELSE @ \o Extractor(extraction.extractor,
                                   extraction.imageData),
          !.extractor = @ + 1]
  /\ UNCHANGED <<runVars, ingestVars, request, dispatch, tagCall, crawl>>

\* `return consolidateReferences(allReferences)`, outside the try block:
\* what consolidateReferences throws leaves extractModelReferences
ThrowFromConsolidate ==
  /\ extraction.pc = "extracting"
  /\ extraction.extractor \notin ExtractorIds
  /\ ConsolidateThrows(extraction.allReferences)
  /\ extraction' = [extraction EXCEPT !.pc = "thrown"]
  /\ UNCHANGED <<runVars, ingestVars, request, dispatch, tagCall, crawl>>

\* `return consolidateReferences(allReferences)`
ReturnModelReferences ==
  /\ extraction.pc = "extracting"
  /\ extraction.extractor \notin ExtractorIds
  /\ ~ConsolidateThrows(extraction.allReferences)
  /\ extraction' =
       [extraction EXCEPT
          !.pc = "extracted",
          !.models = consolidateReferences(extraction.allReferences)]
  /\ UNCHANGED <<runVars, ingestVars, request, dispatch, tagCall, crawl>>

\* processEntityToImage, line 91-103: the image row is inserted with models
InsertImageWithModels ==
  /\ extraction.pc = "extracted"
  /\ extraction' =
       [extraction EXCEPT
          !.pc = "stored",
          !.image = <<[imageId |-> extraction.payload.id,
                       models |-> extraction.models,
                       storageKey |->
                         generateStorageKey("images", extraction.payload.id)]>>]
  /\ UNCHANGED <<runVars, ingestVars, request, dispatch, tagCall, crawl>>

NextExtract ==
  \/ CallExtractModelReferences
  \/ RunExtractor
  \/ ThrowFromConsolidate
  \/ ReturnModelReferences
  \/ InsertImageWithModels

\* ------------------------------------------------------------- buildURL
\* String(value)
String(value) ==
  LET Digits == <<"1", "2", "3", "4", "5", "6", "7", "8", "9">>
  IN
  CASE value.kind = "number" ->
         IF value.n = 0 THEN "0" ELSE Digits[value.n]
    [] value.kind = "boolean" -> IF value.b THEN "true" ELSE "false"
    [] value.kind = "string" -> value.s
    [] value.kind = "null" -> "null"
    [] OTHER -> "undefined"

\* baseUrl = 'https://civitai.com/api/v1', as origin and path segments
baseUrl == [origin |-> "https://civitai.com", pathname |-> <<"api", "v1">>]

\* url.searchParams.append for every entry whose value is neither null nor
\* undefined, in the order of the entries
RECURSIVE AppendParams(_, _)
AppendParams(search, entries) ==
  IF entries = <<>>
    THEN search
    ELSE AppendParams(
           IF Head(entries)[2].kind \notin {"null", "undefined"}
             THEN Append(search, <<Head(entries)[1], String(Head(entries)[2])>>)
             ELSE search,
           Tail(entries))

\* buildURL(baseUrl, pathSegments, params): the URL, whose string is the
\* origin, the path segments joined by "/" and the search entries joined by
\* "&" in their order
buildURL(base, pathSegments, params) ==
  [origin |-> base.origin,
   pathname |-> SelectSeq(base.pathname \o pathSegments, LAMBDA seg : seg # ""),
   search |-> AppendParams(<<>>, params)]

\* search parameters of the image requests
ParamValues ==
  LET UndefinedValue == [kind |-> "undefined", n |-> 0, b |-> FALSE, s |-> ""]
  IN
  LET Null == [kind |-> "null", n |-> 0, b |-> FALSE, s |-> ""]
  IN
  LET Str(s) == [kind |-> "string", n |-> 0, b |-> FALSE, s |-> s]
  IN
  LET Boolean(b) == [kind |-> "boolean", n |-> 0, b |-> b, s |-> ""]
  IN
  \* convex/utils/url.ts.  A JavaScript object is the sequence of its entries
  \* <<key, value>> in insertion order, which is the order of Object.entries.
  \* A value is tagged with its type: number, boolean, string, null or
  \* undefined.
  LET Number(n) == [kind |-> "number", n |-> n, b |-> FALSE, s |-> ""]
  IN
  [modelId |-> {Number(1), Number(2)},
   nsfw |-> {Boolean(TRUE), Boolean(FALSE)},
   sort |-> {Str("Newest"), UndefinedValue},
   period |-> {Str("Day"), Null}]
ParamObjects ==
  LET ParamKeys == DOMAIN ParamValues
  IN
  \* the objects with MaxParams entries of different keys, in every key order
  LET KeyOrders ==
        {ks \in [1..MaxParams -> ParamKeys] : \A m, n \in 1..MaxParams : ks[m] = ks[n] => m = n}
  IN
  UNION {{[n \in 1..MaxParams |-> <<ks[n], vs[n]>>]
            : vs \in {w \in [1..MaxParams -> UNION {ParamValues[k] : k \in ParamKeys}]
                        : \A n \in 1..MaxParams : w[n] \in ParamValues[ks[n]]}}
           : ks \in KeyOrders}

NoRequest ==
  [pc |-> "idle", searchParams |-> <<>>, again |-> <<>>, url |-> <<>>,
   urlAgain |-> <<>>]

\* buildURL(baseUrl, ['images'], searchParams), as addImagesBy...Run and
\* fetchImages call it
CallBuildURL ==
  /\ request.pc = "called"
  /\ request' =
       [request EXCEPT
          !.pc = "calledAgain",
          !.url = <<buildURL(baseUrl, <<"images">>, request.searchParams)>>]
  /\ UNCHANGED <<runVars, ingestVars, extraction, dispatch, tagCall, crawl>>

\* a second call, with the same parameters in this caller's key order
CallBuildURLAgain ==
  /\ request.pc = "calledAgain"
  /\ request' =
       [request EXCEPT
          !.pc = "built",
          !.urlAgain = <<buildURL(baseUrl, <<"images">>, request.again)>>]
  /\ UNCHANGED <<runVars, ingestVars, extraction, dispatch, tagCall, crawl>>

NextUrl ==
  \/ CallBuildURL
  \/ CallBuildURLAgain

\* ------------------------------------------------------- storage.enqueue
\* convex/storage.ts.  The tasks are numbered 1..tasks; a batch is the pair
\* <<first, last>> of the tasks of a slice.
BATCH_SIZE == 100

Min(a, b) == IF a < b THEN a ELSE b

\* a handler that would forward the whole task list in one request
TaskBatchesMutantOneBatch(tasks, i) ==
  IF i < tasks THEN <<(<<i + 1, tasks>>)>> ELSE <<>>

\* for (let i = 0; i < tasks.length; i += BATCH_SIZE)
\*   batches.push(tasks.slice(i, i + BATCH_SIZE))
RECURSIVE TaskBatches(_, _)
TaskBatches(tasks, i) ==
  IF i < tasks
    THEN <<(<<i + 1, Min(i + BATCH_SIZE, tasks)>>)>>
           \o TaskBatches(tasks, i + BATCH_SIZE)
    ELSE <<>>

\* upFetch's options: an unset variable is logged and the request is made
\* all the same, with baseUrl undefined or 'Bearer undefined'
Configured(env) == env.ASSETS_WORKER_URL /\ env.ASSETS_SECRET

\* how a request can settle: without a base URL there is nothing to fetch;
\* otherwise the worker answers, or the request fails
Settlements(env) ==
  IF env.ASSETS_WORKER_URL THEN {"fulfilled", "rejected"} ELSE {"rejected"}

\* Promise.all in the place of Promise.allSettled
allSettledMutantAll(requests) ==
  IF \E b \in DOMAIN requests : requests[b] = "rejected"
    THEN "failed" ELSE "returned"

\* await Promise.allSettled(...): resolves once every request has settled,
\* whatever the outcomes
allSettled(requests) == "returned"

NoDispatch ==
  [pc |-> "idle", env |-> [ASSETS_WORKER_URL |-> TRUE, ASSETS_SECRET |-> TRUE],
   tasks |-> 0, batches |-> <<>>, requests |-> <<>>]

\* the handler up to the await: the slices, and one upFetch call per batch
EnqueueSend ==
  /\ dispatch.pc = "called"
  /\ dispatch' =
       [dispatch EXCEPT
          !.pc = "awaiting",
          !.batches = TaskBatches(dispatch.tasks, 0),
          !.requests =
             [b \in 1..Len(TaskBatches(dispatch.tasks, 0)) |-> "pending"]]
  /\ UNCHANGED <<runVars, ingestVars, extraction, request, tagCall, crawl>>

\* one request settles
RequestSettles(b) ==
  /\ dispatch.pc = "awaiting"
  /\ dispatch.requests[b] = "pending"
  /\ \E outcome \in Settlements(dispatch.env) :
       dispatch' = [dispatch EXCEPT !.requests[b] = outcome]
  /\ UNCHANGED <<runVars, ingestVars, extraction, request, tagCall, crawl>>

\* the await resumes and the handler ends
EnqueueEnds ==
  /\ dispatch.pc = "awaiting"
  /\ \A b \in DOMAIN dispatch.requests : dispatch.requests[b] # "pending"
  /\ dispatch' = [dispatch EXCEPT !.pc = allSettled(dispatch.requests)]
  /\ UNCHANGED <<runVars, ingestVars, extraction, request, tagCall, crawl>>

NextStorage ==
  \/ EnqueueSend
  \/ \E b \in DOMAIN dispatch.requests : RequestSettles(b)
  \/ EnqueueEnds

\* ------------------------------------------------------- tag mutations
\* Each mutation is one transaction: it commits as one step, or it throws
\* and leaves the tables as they were.

NoTagCall ==
  [op |-> "none", name |-> Undefined, tagId |-> 0, imageId |-> 0,
   error |-> Undefined]

\* the names a caller may pass: v.string()
TagNames ==
  {"a", " A ", "b", "", " ", INTERNAL_TAGS_untagged,
   "a name of more than fifty characters, which is too long"}

tagFrame ==
  <<runVars, entitySnapshots, images, call, scheduled, extraction, request,
    dispatch, crawl>>

\* createTag (internal mutation)
CreateTag ==
  \E name \in TagNames, isInternal \in BOOLEAN :
    LET result == createTag(tags, name, isInternal)
    IN /\ Len(result.tags) <= MaxTags
       /\ tags' = result.tags
       /\ tagCall' = [NoTagCall EXCEPT !.op = "createTag", !.name = name,
                                       !.tagId = result.tagId,
                                       !.error = result.error]
       /\ UNCHANGED <<tagFrame, imageTags>>

\* ensureTag (internal mutation)
EnsureTag ==
  \E name \in TagNames, isInternal \in BOOLEAN :
    LET result == ensureTag(tags, name, isInternal)
    IN /\ Len(result.tags) <= MaxTags
       /\ tags' = result.tags
       /\ tagCall' = [NoTagCall EXCEPT !.op = "ensureTag", !.name = name,
                                       !.tagId = result.tagId,
                                       !.error = result.error]
       /\ UNCHANGED <<tagFrame, imageTags>>

\* renameTag
RenameTag ==
  \E tagId \in DOMAIN tags, newName \in TagNames :
    LET normalizedName == toLowerCase(trim(newName))
        existing == getTagByName(tags, normalizedName)
        error ==
          IF tags[tagId].deleted THEN "Tag not found"
          ELSE IF tags[tagId].isInternal THEN "Cannot rename internal tags"
          ELSE IF normalizedName = "" THEN "Tag name cannot be empty"
          ELSE IF Len(normalizedName) > 50
            THEN "Tag name must be 50 characters or less"
          ELSE IF existing # 0 /\ existing # tagId
            THEN "Tag with this name already exists"
          ELSE Undefined
    IN /\ tags' = IF error = Undefined
                    THEN [tags EXCEPT ![tagId].name = normalizedName]
                    ELSE tags
       /\ tagCall' = [NoTagCall EXCEPT !.op = "renameTag", !.name = newName,
                                       !.tagId = tagId, !.error = error]
       /\ UNCHANGED <<tagFrame, imageTags>>

\* deleteTag
DeleteTag ==
  \* a row of 'tags'; ctx.db.delete leaves the _id unused for ever
  LET DeletedTag == [name |-> Undefined, isInternal |-> FALSE, deleted |-> TRUE]
  IN
  \E tagId \in DOMAIN tags :
    LET error ==
          IF tags[tagId].deleted THEN "Tag not found"
          ELSE IF tags[tagId].isInternal THEN "Cannot delete internal tags"
          ELSE Undefined
    IN /\ IF error = Undefined
            THEN /\ imageTags' = {r \in imageTags : r[2] # tagId}
                 /\ tags' = [tags EXCEPT ![tagId] = DeletedTag]
            ELSE UNCHANGED <<imageTags, tags>>
       /\ tagCall' = [NoTagCall EXCEPT !.op = "deleteTag", !.tagId = tagId,
                                       !.error = error]
       /\ UNCHANGED tagFrame

\* addTagToImage
AddTagToImage ==
  \E imageId \in DOMAIN images, tagName \in TagNames :
    LET ensured == ensureTag(tags, tagName, FALSE)
        tagId == ensured.tagId
        untaggedTag == getTagByName(ensured.tags, INTERNAL_TAGS_untagged)
    IN /\ Len(ensured.tags) <= MaxTags
       /\ tags' = ensured.tags
       /\ imageTags' =
            IF ensured.error # Undefined \/ <<imageId, tagId>> \in imageTags
              THEN imageTags
              ELSE (imageTags \cup {<<imageId, tagId>>})
                     \ {<<imageId, untaggedTag>>}
       /\ tagCall' = [NoTagCall EXCEPT !.op = "addTagToImage",
                                       !.name = tagName, !.imageId = imageId,
                                       !.tagId = tagId,
                                       !.error = ensured.error]
       /\ UNCHANGED tagFrame

\* removeTagFromImage
RemoveTagFromImage ==
  \E imageId \in DOMAIN images, tagId \in DOMAIN tags :
    LET deleted == imageTags \ {<<imageId, tagId>>}
        userTagCount == getImageTagCount(deleted, tags, imageId)
        untaggedTag == getTagByName(tags, INTERNAL_TAGS_untagged)
    IN /\ imageTags' =
            IF <<imageId, tagId>> \notin imageTags THEN imageTags
            ELSE IF userTagCount = 0 /\ untaggedTag # 0
              THEN deleted \cup {<<imageId, untaggedTag>>}
            ELSE deleted
       /\ tagCall' = [NoTagCall EXCEPT !.op = "removeTagFromImage",
                                       !.imageId = imageId, !.tagId = tagId]
       /\ UNCHANGED <<tagFrame, tags>>

NextTags ==
  \/ CreateTag
  \/ EnsureTag
  \/ RenameTag
  \/ DeleteTag
  \/ AddTagToImage
  \/ RemoveTagFromImage

InitTagCall == tagCall = NoTagCall

\* ------------------------------------------------------- runImageCrawl

\* the state object of startImageCrawl; maxNewImages is <<>> when undefined
\* and <<n>> when given.  failures counts, for the properties, the batch
\* attempts that failed since the last one that succeeded
NoCrawl ==
  [scheduled |-> FALSE, failures |-> 0,
   state |-> [totalFetched |-> 0, newImagesCreated |-> 0,
              nextCursor |-> Undefined, maxNewImages |-> <<>>,
              failureCount |-> 0]]

\* Math.min(IMAGE_PAGE_SIZE, remainingForTotal, remainingForMaxNew)
CrawlLimit(state) ==
  LET remainingForTotal == MAX_CRAWLED_ITEMS - state.totalFetched
      bounds == {IMAGE_PAGE_SIZE, remainingForTotal}
                  \cup (IF state.maxNewImages # <<>> /\ state.maxNewImages[1] # 0
                          THEN {state.maxNewImages[1] - state.newImagesCreated}
                          ELSE {})
  IN CHOOSE m \in bounds : \A k \in bounds : m <= k

\* the checks at the head of the handler, each of which returns the state
CrawlFinished(state) ==
  \/ state.totalFetched >= MAX_CRAWLED_ITEMS
  \/ state.maxNewImages # <<>> /\ state.newImagesCreated >= state.maxNewImages[1]
  \/ ~Truthy(state.nextCursor) /\ state.totalFetched > 0
  \/ CrawlLimit(state) <= 0

\* an execution that finds the crawl finished returns without fetching
RunImageCrawlReturns ==
  /\ crawl.scheduled
  /\ CrawlFinished(crawl.state)
  /\ crawl' = [crawl EXCEPT !.scheduled = FALSE]
  /\ UNCHANGED <<runVars, ingestVars, extraction, request, dispatch, tagCall>>

\* an execution whose batch succeeds: fetchImages, insertEntitySnapshots and
\* insertImages return; the state is updated and the next run is scheduled
\* when shouldContinue
RunImageCrawlBatch ==
  /\ crawl.scheduled
  /\ ~CrawlFinished(crawl.state)
  /\ \E batchSize \in 0..MaxCrawlFetched, updatedNextCursor \in {Undefined, "c1"} :
       \E newBatchImagesCreated \in 0..batchSize :
          LET state == crawl.state
              updatedState ==
                [state EXCEPT
                   !.totalFetched = state.totalFetched + batchSize,
                   !.newImagesCreated = state.newImagesCreated + newBatchImagesCreated,
                   !.nextCursor = updatedNextCursor,
                   !.failureCount = 0]
              shouldContinue ==
                /\ updatedState.totalFetched < MAX_CRAWLED_ITEMS
                /\ \/ state.maxNewImages = <<>>
                   \/ updatedState.newImagesCreated < state.maxNewImages[1]
                /\ updatedNextCursor # Undefined
                /\ batchSize > 0
          IN /\ batchSize <= CrawlLimit(state)
             /\ updatedState.totalFetched <= MaxCrawlFetched
             /\ crawl' =
                  IF batchSize = 0
                    THEN [scheduled |-> FALSE, failures |-> 0,
                          state |-> [state EXCEPT !.failureCount = 0]]
                    ELSE [scheduled |-> shouldContinue, failures |-> 0,
                          state |-> updatedState]
  /\ UNCHANGED <<runVars, ingestVars, extraction, request, dispatch, tagCall>>

\* an execution whose batch throws: the catch counts the failure and
\* schedules the retry while newFailureCount <= MAX_RETRIES
RunImageCrawlFails ==
  /\ crawl.scheduled
  /\ ~CrawlFinished(crawl.state)
  /\ LET newFailureCount == crawl.state.failureCount + 1
     IN crawl' = [scheduled |-> newFailureCount <= MAX_RETRIES,
                  failures |-> crawl.failures + 1,
                  state |-> [crawl.state EXCEPT !.failureCount = newFailureCount]]
  /\ UNCHANGED <<runVars, ingestVars, extraction, request, dispatch, tagCall>>

NextCrawl ==
  \/ RunImageCrawlReturns
  \/ RunImageCrawlBatch
  \/ RunImageCrawlFails

InitCrawl == crawl = NoCrawl

InitRuns ==
  /\ runs = <<>>
  /\ queue = EmptyBag
  /\ worker = IdleWorker

InitIngest ==
  /\ entitySnapshots = <<>>
  /\ images = <<>>
  /\ imageTags = {}
  /\ tags = <<>>
  /\ call = IdleCall
  /\ scheduled = <<>>

InitExtraction == extraction = NoExtraction

InitRequest == request = NoRequest

InitDispatch == dispatch = NoDispatch

Init ==
  InitRuns /\ InitIngest /\ InitExtraction /\ InitRequest /\ InitDispatch
  /\ InitTagCall
  /\ InitCrawl

\* storage.enqueue is called with some tasks in some environment
InitStorage ==
  \* process.env: whether ASSETS_WORKER_URL and ASSETS_SECRET are set
  LET Environments == [ASSETS_WORKER_URL : BOOLEAN, ASSETS_SECRET : BOOLEAN]
  IN
  \* task lists that fill no, one or several batches, the last one full or not
  LET TaskCounts ==
        {0, 1} \cup {k * BATCH_SIZE + d : k \in 1..(MaxBatches - 1), d \in {0, 1}}
  IN
  /\ InitRuns
  /\ InitIngest
  /\ InitTagCall
  /\ InitCrawl
  /\ InitExtraction
  /\ InitRequest
  /\ \E tasks \in TaskCounts, env \in Environments :
       dispatch = [NoDispatch EXCEPT !.pc = "called", !.tasks = tasks,
                                     !.env = env]

\* two calls with the same key/value pairs
InitUrl ==
  \* the key/value pairs of an object, whatever their order
  LET Pairs(params) == {params[n] : n \in DOMAIN params}
  IN
  /\ InitRuns
  /\ InitIngest
  /\ InitTagCall
  /\ InitCrawl
  /\ InitExtraction
  /\ InitDispatch
  /\ \E params, again \in ParamObjects :
       /\ Pairs(params) = Pairs(again)
       /\ request = [NoRequest EXCEPT !.pc = "called",
                                      !.searchParams = params,
                                      !.again = again]

\* the extraction model starts from a parsed payload of a new image
InitExtract ==
  LET Payloads ==
        LET Metas ==
              {<<>>} \cup {<<obj>> : obj \in UsageObjects}
                     \cup {<<[EmptyObject EXCEPT !.meta = <<obj>>]>> : obj \in UsageObjects}
        IN
                  [id : EntityIds, meta : Metas]
  IN
  /\ InitRuns
  /\ InitIngest
  /\ InitTagCall
  /\ InitCrawl
  /\ InitRequest
  /\ InitDispatch
  /\ \E payload \in Payloads :
       extraction = [NoExtraction EXCEPT !.pc = "parsed", !.payload = payload]

\* insertImages has created the images 1..MaxImages, each from its snapshot
\* and each with the untagged tag; then the tag mutations are called
InitTags ==
  /\ InitRuns
  /\ InitExtraction
  /\ InitRequest
  /\ InitDispatch
  /\ InitTagCall
  /\ InitCrawl
  /\ call = IdleCall
  /\ scheduled = <<>>
  /\ entitySnapshots =
       [i \in 1..MaxImages |->
          [entityType |-> "image", entityId |-> i,
           queryKey |-> "/images?modelId=1",
           rawData |-> [id |-> i, valid |-> TRUE],
           processedDocumentId |-> i]]
  /\ images =
       [i \in 1..MaxImages |->
          [imageId |-> i, entitySnapshotId |-> i, url |-> ImageUrl(i),
           storageKey |-> generateStorageKey("images", i)]]
  /\ tags = ensureTag(<<>>, INTERNAL_TAGS_untagged, TRUE).tags
  /\ imageTags = {<<i, 1>> : i \in 1..MaxImages}

\* startImageCrawl has scheduled the first execution with its initial state
InitImageCrawl ==
  /\ InitRuns
  /\ InitIngest
  /\ InitExtraction
  /\ InitRequest
  /\ InitDispatch
  /\ InitTagCall
  /\ \E startCursor \in {Undefined, "c0"}, maxNewImages \in {<<>>, <<0>>, <<1>>, <<2>>} :
       crawl = [NoCrawl EXCEPT !.scheduled = TRUE,
                               !.state.nextCursor = startCursor,
                               !.state.maxNewImages = maxNewImages]

NextRuns ==
  \/ CreateRun
  \/ StartWorker
  \/ WorkerStartRunTask
  \/ WorkerFetch
  \/ WorkerInsertEntitySnapshots
  \/ WorkerInsertImages
  \/ WorkerThrow
  \/ WorkerEndRunTask
  \/ WorkerEnqueue

SpecRuns == Init /\ [][NextRuns]_vars

SpecIngest == Init /\ [][NextIngest]_vars

SpecExtract == InitExtract /\ [][NextExtract]_vars

SpecUrl == InitUrl /\ [][NextUrl]_vars

SpecStorage == InitStorage /\ [][NextStorage]_vars

SpecTags == InitTags /\ [][NextTags]_vars

SpecCrawl == InitImageCrawl /\ [][NextCrawl]_vars

\* The pool keeps running waiting units and an action in flight runs on (or
\* throws); nothing obliges an operator to create runs.
SpecRunsFair ==
  /\ Init
  /\ [][NextRuns]_vars
  /\ WF_vars(WorkerStep \/ WorkerThrow)

\* ------------------------------------------------- properties of the runs

\* the value of the cursor parameter of a URL, Undefined when it has none
Cursor(url) ==
  LET found == {n \in DOMAIN url.searchParams : url.searchParams[n][1] = "cursor"}
  IN IF found = {} THEN Undefined
     ELSE url.searchParams[CHOOSE n \in found : \A m \in found : n <= m][2]

\* the path of a URL and its parameters other than the cursor, in order
Query(url) ==
  LET NotCursor(pair) == pair[1] # "cursor"
  IN <<url.path, SelectSeq(url.searchParams, NotCursor)>>

Terminal == {"completed", "failed"}
\* the step in which the worker's endRunTask mutation commits
EndOfPage == worker.pc = "end" /\ worker'.pc = "enqueue"
\* C5: after endRunTask is applied to a claimed run for a page, the run is
\* completed if and only if previous itemsRead + items of the page >=
\* itemsTarget, or the page had zero items, or the response carried no next
\* cursor (absent or empty); otherwise it is pending and its URL carries the
\* new cursor.
C5_CompletionRule ==
  [][EndOfPage =>
       LET before == runs[worker.run]
           after == runs'[worker.run]
           complete == \/ before.itemsRead + worker.items >= before.itemsTarget
                       \/ worker.items = 0
                       \/ worker.nextCursor \in {Undefined, ""}
       IN /\ after.status = "completed" <=> complete
          /\ ~complete => /\ after.status = "pending"
                          /\ Cursor(after.url) = worker.nextCursor
                          /\ Query(after.url) = Query(before.url)]_vars

\* C5 witness: a page that did not complete its run has just been recorded:
\* the run is pending again, below its target, with the page's cursor in its URL
C5_Witness ==
  /\ worker.pc = "enqueue"
  /\ worker.items > 0
  /\ runs[worker.run].status = "pending"
  /\ runs[worker.run].itemsRead < runs[worker.run].itemsTarget
  /\ Cursor(runs[worker.run].url) = "c1"

\* the step in which the action in flight rejects
PageThrows == worker.pc \in {"fetch", "snapshots", "images"} /\ worker'.pc = "idle"

\* C6: if any step of processing a claimed run's page throws, the run ends
\* with status failed and a non-empty error message.
C6_ThrowFailsRun ==
  [][PageThrows =>
       /\ runs'[worker.run].status = "failed"
       /\ runs'[worker.run].error \notin {Undefined, ""}]_vars

\* C7: when a page attempt of a run failed and a re-execution of the worker
\* unit gets through its page, the run the failed attempt was processing is
\* pending or completed, not failed and not left in_progress.
C7_RetryReleasesRun ==
  (worker.pc = "enqueue" /\ worker.lastRun # 0)
    => runs[worker.lastRun].status \in {"pending", "completed"}

\* C8: with one concurrent worker, at most one run is in_progress.
C8_AtMostOneInProgress ==
  LET InProgress == {i \in DOMAIN runs : runs[i].status = "in_progress"}
  IN
                          Cardinality(InProgress) <= 1

\* C9: every created run eventually reaches a terminal status.
C9_EveryRunTerminates ==
  \A i \in 1..MaxRuns :
    (i \in DOMAIN runs) ~> (i \in DOMAIN runs /\ runs[i].status \in Terminal)

\* C10: every status change follows pending -> in_progress -> {pending,
\* completed, failed}; a run is changed only by its claim (from pending) or
\* while in_progress; a completed or failed run never changes its status,
\* URL or item count again.
C10_StatusTransitions ==
  [][\A i \in DOMAIN runs :
       LET a == runs[i]
           b == runs'[i]
       IN /\ a.status # b.status =>
               \/ a.status = "pending" /\ b.status = "in_progress"
               \/ a.status = "in_progress" /\ b.status \in {"pending", "completed", "failed"}
          /\ a # b => \/ a.status = "pending" /\ b.status = "in_progress"
                      \/ a.status = "in_progress"
          /\ a.status \in Terminal =>
               /\ b.status = a.status
               /\ b.url = a.url
               /\ b.itemsRead = a.itemsRead]_vars

\* C10 witness: a run that needed more than one page is completed while
\* another run has been claimed: pending -> in_progress -> pending ->
\* in_progress -> completed has happened and a completed run is at stake
C10_Witness ==
  \E i, j \in DOMAIN runs :
    /\ runs[i].status = "completed"
    /\ runs[i].itemsTarget > MaxPage
    /\ runs[i].itemsRead >= runs[i].itemsTarget
    /\ runs[j].status = "in_progress"

\* the step in which a worker execution runs startRunTask
StartRunTaskStep ==
  worker.pc = "idle" /\ BagCardinality(queue') < BagCardinality(queue)

\* C11: startRunTask claims a pending run whose priority is >= that of every
\* other pending run, sets exactly that run to in_progress and returns its
\* id and current URL; with no pending run it returns nothing and changes
\* no run.
C11_ClaimsHighestPriority ==
  [][StartRunTaskStep =>
       IF Pending(runs) = {}
         THEN worker'.pc = "idle" /\ runs' = runs
         ELSE /\ worker'.pc = "fetch"
              /\ worker'.run \in Pending(runs)
              /\ \A j \in Pending(runs) :
                    runs[j].priority <= runs[worker'.run].priority
              /\ worker'.url = runs[worker'.run].url
              /\ runs'[worker'.run].status = "in_progress"
              /\ DOMAIN runs' = DOMAIN runs
              /\ \A j \in DOMAIN runs :
                    j # worker'.run => runs'[j] = runs[j]]_vars

\* C11 witness: the run created later was claimed because its priority is
\* higher, while the earlier run of lower priority is still pending
C11_Witness ==
  /\ worker.pc = "fetch"
  /\ worker.run = 2
  /\ runs[1].status = "pending"
  /\ runs[1].priority < runs[2].priority
  /\ runs[2].status = "in_progress"

\* a worker execution holds a claimed run
Processing == worker.pc \in {"fetch", "snapshots", "images", "end"}

CursorPageEnds == EndOfPage /\ worker.items > 0 /\ Truthy(worker.nextCursor)

\* C17: the cursor embedded in a run's URL changes every time a non-empty
\* page with a next cursor is processed, and the run's itemsRead never
\* decreases.
C17_CursorAlwaysChanges ==
  [][/\ CursorPageEnds
          => Cursor(runs'[worker.run].url) # Cursor(runs[worker.run].url)
     /\ \A i \in DOMAIN runs : runs'[i].itemsRead >= runs[i].itemsRead]_vars

\* C17 as the code has it: every time a non-empty page with a next cursor
\* is processed, the cursor embedded in the run's URL becomes that next
\* cursor, so it changes exactly when the response's next cursor differs
\* from the cursor of the request; the run's itemsRead never decreases and
\* grows by the number of items of each processed page.
C17_CursorFollowsResponse ==
  [][/\ CursorPageEnds
          => /\ Cursor(runs'[worker.run].url) = worker.nextCursor
             /\ Query(runs'[worker.run].url) = Query(runs[worker.run].url)
             /\ (runs'[worker.run].url # runs[worker.run].url)
                  <=> (worker.nextCursor # Cursor(worker.url))
     /\ EndOfPage
          => runs'[worker.run].itemsRead = runs[worker.run].itemsRead + worker.items
     /\ \A i \in DOMAIN runs : runs'[i].itemsRead >= runs[i].itemsRead]_vars

\* C17 witness: the second page of a run was not empty and its response
\* repeated the cursor of the request; the URL still carries that cursor
\* and the page's items were counted
C17_Witness ==
  /\ worker.pc = "enqueue"
  /\ worker.items > 0
  /\ Cursor(worker.url) = "c1"
  /\ worker.nextCursor = "c1"
  /\ Cursor(runs[worker.run].url) = "c1"
  /\ runs[worker.run].itemsRead > worker.items

\* -------------------------------------------- properties of the ingestion

\* every callback of the mutation in flight has returned: call.results is
\* what the mutation returns
AllDone(kind) ==
  /\ call.kind = kind
  /\ call.state = "running"
  /\ \A i \in DOMAIN call.pc : call.pc[i] = "done"

SnapshotsOf(entityType, entityId) ==
  {k \in DOMAIN entitySnapshots : /\ entitySnapshots[k].entityType = entityType
                                  /\ entitySnapshots[k].entityId = entityId}
ImagesOf(imageId) == {k \in DOMAIN images : images[k].imageId = imageId}

\* the natural id carried by item i of an insertImages batch, 0 when the
\* snapshot is missing or its payload does not parse
NaturalId(i) ==
  IF call.items[i] \in DOMAIN entitySnapshots
       /\ entitySnapshots[call.items[i]].rawData.valid
    THEN entitySnapshots[call.items[i]].rawData.id
    ELSE 0

\* C1: after any sequence of insertEntitySnapshots calls the snapshot store
\* holds at most one row per (entityType, entityId).
C1_OneSnapshotPerEntity ==
  \A t \in EntityTypes, e \in EntityIds : Cardinality(SnapshotsOf(t, e)) <= 1

\* C2: of two insert-if-absent operations for the same (entityType,
\* entityId) that run concurrently in one insertEntitySnapshots batch, at
\* most one reports inserted=true, both report the same snapshot id, and
\* only one row is stored for the key.
C2_ConcurrentInsertOneWins ==
  AllDone("insertEntitySnapshots") =>
    \A i, j \in DOMAIN call.items :
      (/\ i # j
       /\ call.items[i].entityType = call.items[j].entityType
       /\ call.items[i].entityId = call.items[j].entityId)
      => /\ ~(call.results[i].inserted /\ call.results[j].inserted)
         /\ call.results[i].id = call.results[j].id
         /\ Cardinality(SnapshotsOf(call.items[i].entityType,
                                    call.items[i].entityId)) = 1

\* C3: in every reachable state there is at most one image row per imageId;
\* every insertImages call on a snapshot with a parsable payload returns
\* the one image of its natural id, and the snapshot ends back-linked to it.
C3_OneImagePerImageId ==
  /\ \A e \in EntityIds : Cardinality(ImagesOf(e)) <= 1
  /\ AllDone("insertImages") =>
       \A i \in DOMAIN call.items :
         NaturalId(i) # 0 =>
           /\ call.results[i].id \in ImagesOf(NaturalId(i))
           /\ entitySnapshots[call.items[i]].processedDocumentId = call.results[i].id

\* C4: when two items of one insertImages batch carry the same natural id,
\* exactly one insert wins: afterwards exactly one image row with that
\* imageId exists and the snapshots are back-linked to that row.
C4_ConcurrentIngestOneWins ==
  AllDone("insertImages") =>
    \A i, j \in DOMAIN call.items :
      (i # j /\ NaturalId(i) # 0 /\ NaturalId(i) = NaturalId(j))
      => /\ Cardinality(ImagesOf(NaturalId(i))) = 1
         /\ entitySnapshots[call.items[i]].processedDocumentId \in ImagesOf(NaturalId(i))
         /\ entitySnapshots[call.items[j]].processedDocumentId \in ImagesOf(NaturalId(i))

\* C13: insertImages returns one result per input item, in input order; an
\* item whose snapshot is missing or whose payload does not parse yields a
\* failure result for that item only, and every other item (whose natural
\* id no other item of the batch carries) is returned with its image and
\* back-linked.
C13_FailuresIsolated ==
  AllDone("insertImages") =>
    /\ DOMAIN call.results = DOMAIN call.items
    /\ \A i \in DOMAIN call.items :
          /\ call.results[i].entitySnapshotId = call.items[i]
          /\ NaturalId(i) = 0 =>
                /\ ~call.results[i].inserted
                /\ call.results[i].error # Undefined
                /\ call.results[i].id = 0
          /\ (/\ NaturalId(i) # 0
              /\ \A k \in DOMAIN call.items : k # i => NaturalId(k) # NaturalId(i))
               => /\ call.results[i].error = Undefined
                  /\ call.results[i].id \in ImagesOf(NaturalId(i))
                  /\ entitySnapshots[call.items[i]].processedDocumentId
                       = call.results[i].id

\* C13 witness: a batch of two has finished in which one item failed and
\* the other was newly inserted and back-linked
C13_Witness ==
  /\ AllDone("insertImages")
  /\ \E i, j \in DOMAIN call.items :
       /\ call.results[i].error # Undefined
       /\ NaturalId(i) = 0
       /\ call.results[j].inserted
       /\ entitySnapshots[call.items[j]].processedDocumentId = call.results[j].id

\* callback i of insertImages is at its lookup and an image with the
\* snapshot's natural id exists
FindsExisting(i) ==
  /\ call.kind = "insertImages"
  /\ call.pc[i] = "lookup"
  /\ call.local[i] # <<>>
  /\ call.local[i][1].rawData.valid
  /\ FirstByImageId(images, call.local[i][1].rawData.id) # 0

\* C14: ingesting a snapshot whose natural id already has an image creates
\* and changes no image row, returns inserted=false with the existing
\* image, and leaves the snapshot back-linked to the existing image
\* (patching the back-link when the snapshot, as read, was not linked to it).
C14_ExistingImageNoOp ==
  [][\A i \in DOMAIN call.pc :
       LET existing == FirstByImageId(images, call.local[i][1].rawData.id)
           linked == /\ call'.pc[i] = "done"
                     /\ call'.results[i].inserted = FALSE
                     /\ call'.results[i].error = Undefined
                     /\ call'.results[i].id = existing
                     /\ entitySnapshots'[call.items[i]].processedDocumentId = existing
       IN /\ (FindsExisting(i) /\ call'.pc[i] # "lookup")
               => /\ images' = images
                  /\ \/ linked /\ entitySnapshots' = entitySnapshots
                     \/ /\ call'.pc[i] = "relink"
                        /\ call.local[i][1].processedDocumentId # existing
          /\ (call.kind = "insertImages" /\ call.pc[i] = "relink"
                /\ call'.pc[i] # "relink")
               => /\ images' = images
                  /\ linked]_vars

\* C14 witness: a snapshot other than the one the image was created from
\* has been ingested: inserted=false, the existing image, and back-linked
C14_Witness ==
  /\ AllDone("insertImages")
  /\ \E i \in DOMAIN call.items :
       /\ ~call.results[i].inserted
       /\ call.results[i].id # 0
       /\ images[call.results[i].id].entitySnapshotId # call.items[i]
       /\ entitySnapshots[call.items[i]].processedDocumentId = call.results[i].id

\* callback i of insertEntitySnapshots is at its lookup and a snapshot of its
\* key is stored
FindsSnapshot(i) ==
  /\ call.kind = "insertEntitySnapshots"
  /\ call.pc[i] = "lookup"
  /\ FirstByEntity(entitySnapshots, call.items[i].entityType,
                   call.items[i].entityId) # 0

IngestedBefore(i) ==
  /\ call.items[i] \in DOMAIN call.before.entitySnapshots
  /\ LET snap == call.before.entitySnapshots[call.items[i]]
         hits == {k \in DOMAIN call.before.images :
                    call.before.images[k].imageId = snap.rawData.id}
     IN snap.rawData.valid =>
          /\ hits # {}
          /\ snap.processedDocumentId \in hits
          /\ \A m \in hits : snap.processedDocumentId <= m

InsertImagesReturns == AllDone("insertImages") /\ call'.state = "idle"

\* C18: an insertImages batch makes exactly one dispatch call, and the tasks
\* it hands to the asset dispatcher are exactly the (url, storageKey) pairs
\* of the images newly inserted by that batch; images that already existed
\* are not dispatched again.
C18_DispatchesNewImagesOnly ==
  [][InsertImagesReturns =>
       LET new == {call.results[i].id :
                     i \in {k \in DOMAIN call.results : call.results[k].inserted}}
       IN /\ Len(scheduled') = Len(scheduled) + 1
          /\ SubSeq(scheduled', 1, Len(scheduled)) = scheduled
          /\ LET tasks == scheduled'[Len(scheduled')]
             IN /\ Len(tasks) = Cardinality(new)
                /\ {tasks[t] : t \in DOMAIN tasks}
                     = {[sourceUrl |-> images[id].url,
                         storageKey |-> images[id].storageKey] : id \in new}]_vars

\* ------------------------------------------- properties of the extraction

\* the discriminator of a reference: its best available key
HasDiscriminator(ref) == KeysOf(ref) # <<>>
Discriminator(ref) == KeysOf(ref)[1]

\* C19: a new image whose payload's meta object holds model-usage data in a
\* known shape is stored with a models list that is not empty.
C19_ModelsListed ==
  \* the metadata object holds model-usage data in one of the known shapes
  LET HoldsModelUsage(meta) ==
        \/ \E n \in DOMAIN meta.civitaiResources :
             IsCivitaiResource(meta.civitaiResources[n])
        \/ \E n \in DOMAIN meta.resources : IsModelResource(meta.resources[n])
        \/ Truthy(meta.Model)
        \/ Truthy(meta.hashes.model)
        \/ meta.hashes.lora # <<>>
        \/ \E n \in DOMAIN meta.prompt : IsLoraMatch(meta.prompt[n])
  IN
  extraction.pc = "stored" =>
    LET meta == extraction.payload.meta
    IN (meta # <<>> /\ HoldsModelUsage(meta[1])) =>
         extraction.image[1].models # <<>>

\* C20: no two references returned by consolidateReferences share a
\* discriminator.
C20_DiscriminatorsUnique ==
  extraction.pc = "extracted" =>
    \A m, n \in DOMAIN extraction.models :
      /\ m # n
      /\ HasDiscriminator(extraction.models[m])
      /\ HasDiscriminator(extraction.models[n])
      => Discriminator(extraction.models[m])
           # Discriminator(extraction.models[n])

\* what the extractors read: the meta of the argument of
\* extractModelReferences
Seen == MetaOf(extraction.imageData)

\* C21: metadata describing one checkpoint through hashes.model and through
\* a resources entry of type checkpoint yields exactly one checkpoint
\* reference, with both the hash and the name.
C21_OneCheckpointReference ==
  \* the same checkpoint described by hashes.model (hash only) and by one
  \* resources entry of type checkpoint (name only), and nothing else
  LET SameCheckpointTwice ==
        /\ Truthy(Seen.hashes.model) /\ Seen.hashes.lora = <<>>
        /\ Len(Seen.resources) = 1
        /\ Seen.resources[1].type = "checkpoint"
        /\ Truthy(Seen.resources[1].name) /\ Seen.resources[1].hash = Undefined
        /\ Seen.resources[1].modelId = 0 /\ Seen.resources[1].modelVersionId = 0
        /\ Seen.civitaiResources = <<>> /\ Seen.Model = Undefined
        /\ Seen.prompt = <<>>
  IN
  (extraction.pc = "extracted" /\ SameCheckpointTwice) =>
    /\ Len(extraction.models) = 1
    /\ extraction.models[1].type = "checkpoint"
    /\ extraction.models[1].hash = Seen.hashes.model
    /\ extraction.models[1].name = Seen.resources[1].name

\* the references of a list, as a set
ReferenceSet(references) == {references[n] : n \in DOMAIN references}

\* C22: consolidateReferences applied to its own output returns the same
\* set of references, with the same field values.
C22_ConsolidateIdempotent ==
  extraction.pc = "extracted" =>
    /\ ReferenceSet(consolidateReferences(extraction.models))
         = ReferenceSet(extraction.models)
    /\ Len(consolidateReferences(extraction.models)) = Len(extraction.models)

\* C23: extractModelReferences never throws, whatever the metadata holds.
C23_NeverThrows == extraction.pc # "thrown"

\* ------------------------------------------------ properties of buildURL

\* C24: two parameter objects holding the same key/value pairs, in whatever
\* key orders, are built into the same URL.
C24_SameParamsSameURL ==
  request.pc = "built" => request.url = request.urlAgain

\* ----------------------------------------- properties of storage.enqueue

\* C25: without the worker's URL or its secret, storage.enqueue fails: it
\* does not end normally.
C25_UnconfiguredFails ==
  (~Configured(dispatch.env) /\ dispatch.tasks > 0) =>
    dispatch.pc # "returned"

\* C28: storage.enqueue forwards every batch and does not fail, whichever of
\* its requests fail.
C28_FailedBatchesDoNotFail ==
  \* every task is in exactly one batch, and every batch has its request
  LET AllForwarded ==
        /\ Len(dispatch.requests) = Len(dispatch.batches)
        /\ \A t \in 1..dispatch.tasks :
             \E b \in DOMAIN dispatch.batches :
               /\ dispatch.batches[b][1] <= t /\ t <= dispatch.batches[b][2]
               /\ \A c \in DOMAIN dispatch.batches :
                    (dispatch.batches[c][1] <= t /\ t <= dispatch.batches[c][2])
                      => c = b
  IN
  /\ dispatch.pc # "failed"
  /\ dispatch.pc \in {"awaiting", "returned"} => AllForwarded

\* enqueue has returned although one batch failed, and another was accepted
C28_Witness ==
  /\ dispatch.pc = "returned"
  /\ \E b, c \in DOMAIN dispatch.requests :
       dispatch.requests[b] = "rejected" /\ dispatch.requests[c] = "fulfilled"

\* ---------------------------------- properties of failed and repeated ingestion

Recrawled(i) ==
  /\ call.kind = "insertEntitySnapshots"
  /\ \E k \in DOMAIN call.before.entitySnapshots :
       /\ call.before.entitySnapshots[k].entityType = call.items[i].entityType
       /\ call.before.entitySnapshots[k].entityId = call.items[i].entityId
       /\ call.before.entitySnapshots[k].queryKey # call.items[i].queryKey

\* the images of this imageId when the mutation in flight started
ImagesBefore(imageId) ==
  {k \in DOMAIN call.before.images : call.before.images[k].imageId = imageId}

C29_EarlierNonNullWins ==
  \* consolidateReferences has merged two references, found in this order,
  \* into one
  LET MergedPair ==
        /\ extraction.pc = "extracted"
        /\ Len(extraction.allReferences) = 2
        /\ Len(extraction.models) = 1
  IN
  LET Merged == extraction.models[1]
  IN
  LET Later == extraction.allReferences[2]
  IN
  LET Earlier == extraction.allReferences[1]
  IN
  MergedPair =>
    /\ Merged.type = Earlier.type
    /\ Merged.name = Or(Earlier.name, Later.name, Undefined)
    /\ Merged.hash = Or(Earlier.hash, Later.hash, Undefined)
    /\ Merged.id = Or(Earlier.id, Later.id, 0)
    /\ Merged.versionId = Or(Earlier.versionId, Later.versionId, 0)
    /\ Merged.weight = Or(Earlier.weight, Later.weight, <<>>)

\* C29, amended: the merged reference has, for every field, the value of
\* the earlier reference when that is truthy (for the weight: not null),
\* and else the value of the later one; so a name and a hash found apart
\* end up together, of two names the earlier one stays, and a later
\* reference with nothing but a name changes no id, versionId or hash.
C29_EarlierTruthyWins ==
  \* consolidateReferences has merged two references, found in this order,
  \* into one
  LET MergedPair ==
        /\ extraction.pc = "extracted"
        /\ Len(extraction.allReferences) = 2
        /\ Len(extraction.models) = 1
  IN
  LET Merged == extraction.models[1]
  IN
  LET Later == extraction.allReferences[2]
  IN
  LET Earlier == extraction.allReferences[1]
  IN
  MergedPair =>
    /\ Merged.type = Earlier.type
    /\ Merged.name = (IF Truthy(Earlier.name) THEN Earlier.name ELSE Later.name)
    /\ Merged.hash = (IF Truthy(Earlier.hash) THEN Earlier.hash ELSE Later.hash)
    /\ Merged.id = (IF Earlier.id # 0 THEN Earlier.id ELSE Later.id)
    /\ Merged.versionId
         = (IF Earlier.versionId # 0 THEN Earlier.versionId ELSE Later.versionId)
    /\ Merged.weight
         = (IF Earlier.weight # <<>> THEN Earlier.weight ELSE Later.weight)
    /\ (Later.id = 0 /\ Later.versionId = 0 /\ ~Truthy(Later.hash)) =>
         /\ Merged.id = Earlier.id
         /\ Merged.versionId = Earlier.versionId
         /\ Truthy(Earlier.hash) => Merged.hash = Earlier.hash

\* two references of one versionId, the earlier with only a name and the
\* later with only a hash, have been merged into one that has both
C29_Witness ==
  \* consolidateReferences has merged two references, found in this order,
  \* into one
  LET MergedPair ==
        /\ extraction.pc = "extracted"
        /\ Len(extraction.allReferences) = 2
        /\ Len(extraction.models) = 1
  IN
  LET Merged == extraction.models[1]
  IN
  LET Later == extraction.allReferences[2]
  IN
  LET Earlier == extraction.allReferences[1]
  IN
  /\ MergedPair
  /\ Earlier.versionId # 0 /\ Earlier.versionId = Later.versionId
  /\ Truthy(Earlier.name) /\ Earlier.hash = Undefined
  /\ Later.name = Undefined /\ Truthy(Later.hash)
  /\ Merged.name = Earlier.name /\ Merged.hash = Later.hash

\* ------------------------------------------ properties of extractFromPrompt

\* C30: for every <lora:name:weight> token of the prompt, however often it
\* is repeated and in whatever letter case, the result has exactly one lora
\* reference with that name.
C30_OneLoraPerPromptName ==
  \* the lora references of the result whose name is `name`, letter case aside
  LET LoraReferencesNamed(name) ==
        {m \in DOMAIN extraction.models :
           /\ extraction.models[m].type = "lora"
           /\ toLowerCase(extraction.models[m].name) = toLowerCase(name)}
  IN
  extraction.pc = "extracted" =>
    \A n \in DOMAIN Seen.prompt :
      IsLoraMatch(Seen.prompt[n]) =>
        Cardinality(LoraReferencesNamed(Seen.prompt[n].name)) = 1

\* ------------------------------------------ properties of the run's URL

\* C31: endRunTask leaves the path and every parameter other than the cursor
\* of the run's URL as they were, in their order; the URL then has exactly
\* one cursor parameter, the response's next cursor, when the response
\* carried one, and none otherwise; and the next execution fetches the URL
\* that is stored in the run.
C31_OnlyCursorChanges ==
  [][/\ EndOfPage =>
          LET before == runs[worker.run].url
              after == runs'[worker.run].url
              IsCursor(pair) == pair[1] = "cursor"
              NotCursor(pair) == pair[1] # "cursor"
          IN /\ after.path = before.path
             /\ SelectSeq(after.searchParams, NotCursor)
                  = SelectSeq(before.searchParams, NotCursor)
             /\ SelectSeq(after.searchParams, IsCursor)
                  = IF Truthy(worker.nextCursor)
                    THEN <<<<"cursor", worker.nextCursor>>>>
                    ELSE <<>>
     /\ (StartRunTaskStep /\ worker'.pc = "fetch")
          => worker'.url = runs[worker'.run].url]_vars

\* C31 witness: the second page of a run has ended; the first page had put
\* a cursor into the URL, the second page's response carried none, and the
\* URL is the one the run was created with
C31_Witness ==
  /\ worker.pc = "enqueue"
  /\ worker.items > 0
  /\ Cursor(worker.url) = "c1"
  /\ ~Truthy(worker.nextCursor)
  /\ runs[worker.run].itemsRead > worker.items
  /\ runs[worker.run].url.searchParams
       = <<<<"modelId", "1">>, <<"nsfw", "true">>>>

\* ------------------------------------------ properties of the batches

\* C32: the batches of storage.enqueue are consecutive slices of the task
\* list, the first starting at the first task and the last ending at the
\* last one, each of 1 to BATCH_SIZE tasks; every batch is sent in one
\* request, and an empty task list gives no batch and no request.
C32_BatchesPartitionTasks ==
  dispatch.pc \in {"awaiting", "returned"} =>
    LET batches == dispatch.batches
    IN /\ Len(dispatch.requests) = Len(batches)
       /\ dispatch.tasks = 0 => batches = <<>>
       /\ dispatch.tasks > 0 =>
            /\ batches # <<>>
            /\ batches[1][1] = 1
            /\ batches[Len(batches)][2] = dispatch.tasks
       /\ \A b \in DOMAIN batches :
            /\ batches[b][1] <= batches[b][2]
            /\ batches[b][2] - batches[b][1] + 1 <= BATCH_SIZE
            /\ b > 1 => batches[b][1] = batches[b - 1][2] + 1

\* C32 witness: a task list of two full batches and one more task has been
\* sent, in three requests
C32_Witness ==
  /\ dispatch.pc = "awaiting"
  /\ dispatch.tasks = 2 * BATCH_SIZE + 1
  /\ dispatch.batches
       = <<(<<1, BATCH_SIZE>>), (<<BATCH_SIZE + 1, 2 * BATCH_SIZE>>),
           (<<2 * BATCH_SIZE + 1, 2 * BATCH_SIZE + 1>>)>>
  /\ Len(dispatch.requests) = 3

\* ------------------------------------------ properties of the tags

\* C33: between mutations, every image carries the untagged tag if and only
\* if it has no relationship to a tag that is not internal; so a new image
\* carries it, the first user tag takes it away and the removal of the last
\* user tag brings it back.
C33_UntaggedIffNoUserTag ==
  call.state = "idle" =>
    \A i \in DOMAIN images :
      LET untagged == getTagByName(tags, INTERNAL_TAGS_untagged)
          userTags == {r \in imageTags :
                         /\ r[1] = i
                         /\ ~tags[r[2]].deleted
                         /\ ~tags[r[2]].isInternal}
      IN (untagged # 0 /\ <<i, untagged>> \in imageTags) <=> userTags = {}

\* C34: a deleteTag of a user tag that succeeds removes the tag and every
\* relationship to it, and every image whose only user tag it was carries
\* the untagged tag afterwards.
C34_DeleteTagRestoresUntagged ==
  [][(tagCall'.op = "deleteTag" /\ tags' # tags) =>
       LET tagId == tagCall'.tagId
           untagged == getTagByName(tags, INTERNAL_TAGS_untagged)
           userTags(i) == {r \in imageTags :
                             /\ r[1] = i
                             /\ ~tags[r[2]].deleted
                             /\ ~tags[r[2]].isInternal}
       IN /\ tags'[tagId].deleted
          /\ \A r \in imageTags' : r[2] # tagId
          /\ \A i \in DOMAIN images :
               userTags(i) = {<<i, tagId>>} => <<i, untagged>> \in imageTags']_vars

\* C35: the tags that exist always have pairwise different names, each in
\* normalized form (trimmed, lower case); and a createTag or a renameTag
\* whose normalized name is the name of another existing tag throws and
\* leaves the tags as they were.
C35_TagNamesUnique ==
  [][LET live(table) == {i \in DOMAIN table : ~table[i].deleted}
         normalized == toLowerCase(trim(tagCall'.name))
         others == IF tagCall'.op = "renameTag"
                     THEN live(tags) \ {tagCall'.tagId}
                     ELSE live(tags)
     IN /\ \A i, j \in live(tags') :
             /\ tags'[i].name = toLowerCase(trim(tags'[i].name))
             /\ i # j => tags'[i].name # tags'[j].name
        /\ (/\ tagCall'.op \in {"createTag", "renameTag"}
            /\ tagCall' # tagCall
            /\ \E k \in others : tags[k].name = normalized)
             => /\ tagCall'.error # Undefined
                /\ tags' = tags]_vars

\* C35 witness: with two user tags in the table, a renameTag of one to the
\* name of the other, written in another letter case and with blanks, has
\* been refused
C35_Witness ==
  /\ tagCall.op = "renameTag"
  /\ tagCall.name = " A "
  /\ tagCall.error = "Tag with this name already exists"
  /\ \E i, j \in DOMAIN tags :
       /\ i # j /\ j = tagCall.tagId
       /\ ~tags[i].deleted /\ ~tags[j].deleted
       /\ tags[i].name = "a" /\ tags[j].name = "b"

\* C36: once MAX_RETRIES consecutive batch attempts of runImageCrawl have
\* failed no further attempt is scheduled, and the failure count of the state
\* is the number of attempts that failed since the last successful batch (a
\* successful batch resets it to 0)
C36_StopsAfterMaxRetriesFailures ==
  /\ crawl.state.failureCount = crawl.failures
  /\ crawl.failures >= MAX_RETRIES => ~crawl.scheduled

C38_UnitsBoundedByCalls ==
  [][LET \* the worker units that are queued or running
         WorkerUnits(q, w) == BagCardinality(q) + (IF w.pc = "idle" THEN 0 ELSE 1)
         before == WorkerUnits(queue, worker)
         after == WorkerUnits(queue', worker')
         isCall == worker' = worker /\ BagCardinality(queue') > BagCardinality(queue)
     IN /\ isCall => after = before + 1
        /\ ~isCall => after <= before
        /\ ~isCall /\ BagCardinality(queue') > BagCardinality(queue) =>
             /\ BagCardinality(queue') = BagCardinality(queue) + 1
             /\ worker'.pc = "idle"
             /\ \/ worker.pc = "enqueue"
                \/ worker.pc \in {"fetch", "snapshots", "images"}
                     /\ worker.attempt < maxAttempts
        /\ worker.pc = "end" /\ worker' # worker =>
             queue' = queue /\ worker'.pc = "enqueue"
        /\ StartRunTaskStep /\ Pending(runs) = {} =>
             /\ worker'.pc = "idle"
             /\ after = before - 1]_vars

\* C38 witness: both runs were read to completion, each execution left its
\* successor in the queue, and an execution that found no pending run has
\* taken one of the units away without enqueueing
C38_Witness ==
  /\ Len(runs) = MaxRuns
  /\ \A i \in DOMAIN runs : runs[i].status = "completed" /\ runs[i].itemsRead > 0
  /\ worker.pc = "idle"
  /\ BagCardinality(queue) = MaxRuns - 1

====
